---- MODULE Spec2Model ----
(***************************************************************************)
(* A model of the asset package of Ostsol/engine: vertex attribute arrays  *)
(* (asset/vertexarray.go), the composite mesh builder (asset/meshutil.go)  *)
(* and the resource Manager with its parent chain.                         *)
(*                                                                         *)
(* The module holds several specifications over one set of variables, one  *)
(* per part of the package; a specification leaves the variables of the    *)
(* other parts at their initial values.                                    *)
(*   SpecArr   one AttribArray: NewAttribArray, then Update calls          *)
(*   SpecMesh  one MakeMesh call                                           *)
(*   SpecReg   a chain of Managers used through Add<Kind> and Clean        *)
(*   SpecProg  a chain of Managers used through LoadShader, LoadProgram    *)
(*             and Clean                                                   *)
(*   SpecClean one AttribArray and one ElementArray, made and cleaned      *)
(*   SpecAdd   one Mesh built with NewMesh and AddArrays                   *)
(*   SpecTexs  a chain of Managers used through LoadTextures and Clean     *)
(*   SpecTexture one Texture: creation, LoadImage, LoadSubImage, Clean     *)
(*   SpecMat   one Material: SetProgram, InitUniformLocs, DrawUniforms     *)
(*   SpecBox   one Mesh made by NewBox or NewEqTriangle, then cleaned      *)
(*   SpecHeld  one Mesh given arrays by AddArrays, which the caller        *)
(*             updates through the Mesh, and Mesh.Init                     *)
(*   SpecElem  one ElementArray: NewElementArray, then Update calls        *)
(*   SpecStage a chain of Managers used through LoadShader for any stage   *)
(*             and LoadProgram, never cleaned                              *)
(*                                                                         *)
(* A Go panic ends the run of the specification it happens in: the state   *)
(* it leaves is kept (with the panic's message as the error), and no       *)
(* further operation is taken from it.                                     *)
(***************************************************************************)
EXTENDS Integers, Sequences, FiniteSets, TLC

\* ------------------------------------------------------------------ bounds

\* The longest data slice (in slice elements) handed to NewAttribArray/Update.
MaxLen == 4

\* The largest 'dims' argument of NewAttribArray (dims ranges over 1..MaxDims).
MaxDims == 3

\* ------------------------------------------------------ the slice types

\* The Go slice types a caller hands in as 'data'. "int32" stands for any
\* slice type the type switches do not list.
Kinds == {"uint8", "float32", "vec2f", "vec3f", "float64", "vec2d", "vec3d", "int32"}

\* The slice types the type switch of NewAttribArray/Update lists.
Supported == Kinds \ {"int32"}

\* 'size' of the type switch: bytes per scalar.
ElemSize(kind) ==
  CASE kind = "uint8" -> 1
    [] kind \in {"float32", "vec2f", "vec3f"} -> 4
    [] kind \in {"float64", "vec2d", "vec3d"} -> 8
    [] OTHER -> 0

\* 'typ' of the type switch: the OpenGL data type of the scalars.
GLType(kind) ==
  CASE kind = "uint8" -> "UNSIGNED_BYTE"
    [] kind \in {"float32", "vec2f", "vec3f"} -> "FLOAT"
    [] kind \in {"float64", "vec2d", "vec3d"} -> "DOUBLE"
    [] OTHER -> "none"

\* The number of scalars one slice element holds (the 'l *= 2', 'l *= 3' of
\* the vector cases; 1 for the scalar slices).
Width(kind) ==
  CASE kind \in {"vec2f", "vec2d"} -> 2
    [] kind \in {"vec3f", "vec3d"} -> 3
    [] OTHER -> 1

\* A data slice: its Go type and val.Len().
DataOf(kinds, lens) == [kind : kinds, n : lens]

\* --------------------------------------------------------------- variables

VARIABLES
  glBuffers,  \* the OpenGL buffer objects: handle -> bytes of its data store
  arr,        \* SpecArr: the AttribArray under test (NilArr before creation)
  arr0,       \* SpecArr: that array as NewAttribArray returned it
  acall,      \* SpecArr: the last call made, with its arguments
  aerr,       \* SpecArr: the error (or panic) of the last call
  mesh,       \* SpecMesh: the *Mesh MakeMesh returned (NilMesh: none, or nil)
  merr,       \* SpecMesh: the error (or panic) of the last call
  mmade,      \* SpecMesh: the buffer names generated during the MakeMesh call
  mcall,      \* SpecMesh: the last call made, with its arguments
  Materials,  \* Manager.Materials of each Manager: name -> *Material
  Meshes,     \* Manager.Meshes of each Manager: name -> *Mesh
  Shaders,    \* Manager.Shaders of each Manager: name -> shader handle
  Programs,   \* Manager.Programs of each Manager: ShaderSet -> program handle
  Textures,   \* Manager.Textures of each Manager: name -> *Texture
  matProg,    \* the Material objects: *Material -> its Prog field
  meshLive,   \* the *Mesh objects whose vertex array and buffers are not deleted
  texLive,    \* the *Texture objects whose texture and buffer are not deleted
  glShaders,  \* the OpenGL shader objects: handle -> shader type
  glPrograms, \* the OpenGL program objects (handles)
  gcall,      \* the last Manager call made, with its arguments
  gret,       \* the handle or object the last Manager call returned (0: none)
  gerr,       \* the error of the last Manager call
  linkedNow,  \* whether the last Manager call created and linked a program
  okProg,     \* per Manager and file triple: the program a LoadProgram call
              \* returned with no Clean in the Manager's chain since (0: none)
  prevOk,     \* okProg of the last LoadProgram call's arguments, before it
  elem,       \* SpecClean: the ElementArray under test (NilElem before creation)
  deleted,    \* SpecClean: per array, the non-zero names its Clean calls have
              \* passed to gl.DeleteBuffers, in order
  cleans,     \* SpecClean: per array, the number of Clean calls made on it
  tret,       \* SpecTexs: what the last LoadTextures returned
  opened,     \* SpecTexs: the texture files the last LoadTextures opened, in order
  texture,    \* SpecTexture: the Texture under test (nil before creation)
  glTextures, \* SpecTexture: the OpenGL texture objects: name -> level -> image size
  tcall,      \* SpecTexture: the last call made, with its arguments
  terr,       \* SpecTexture: the error (or panic) of the last call
  upl,        \* SpecTexture: the staging-buffer rows the last call wrote and
              \* the texture uploads it issued
  material,   \* SpecMat: the Material under test (nil before creation)
  ucall,      \* SpecMat: the last call made, with its arguments
  uerr,       \* SpecMat: the error (or panic) of the last call
  usets,      \* SpecMat: the gl.Uniform* calls the last DrawUniforms issued, in order
  marray,     \* SpecHeld: m.Array of the Mesh (0 before Init)
  glArrays,   \* SpecHeld: the OpenGL vertex array names in use
  binds,      \* SpecHeld: the attribute slots the last Mesh.Init bound, in order
  esent       \* SpecElem: the bytes the last ElementArray.Update asked gl.BufferSubData to write

arrVars == <<arr, arr0, acall, aerr>>

meshVars == <<mesh, merr, mmade, mcall>>

mgrMaps == <<Materials, Meshes, Shaders, Programs, Textures>>

mgrVars == <<mgrMaps, matProg, meshLive, texLive, glShaders, glPrograms,
             gcall, gret, gerr, linkedNow, okProg, prevOk>>

\* The variables of the later specifications.
cleanVars == <<elem, deleted, cleans>>

texsVars == <<tret, opened>>

texVars == <<texture, glTextures, tcall, terr, upl>>

matVars == <<material, ucall, uerr, usets>>

initVars == <<marray, glArrays, binds>>

updVars == <<esent>>

laterVars == <<texsVars, texVars, matVars, initVars, updVars>>

extVars == <<cleanVars, laterVars>>

vars == <<glBuffers, arrVars, meshVars, mgrVars, extVars>>

\* ---------------------------------------------------- OpenGL buffer names

\* The largest buffer name the model lets OpenGL hand out.
MaxBufs == 6

BufNames == 1..MaxBufs

EmptyMap == [x \in {} |-> 0]

\* The buffer names in use.
LiveBuffers(bufs) == DOMAIN bufs

\* gl.GenBuffers(1, &buf): an unused name (the lowest one, as drivers do).
GenBuffer(bufs) == CHOOSE b \in BufNames \ DOMAIN bufs :
                     \A c \in BufNames \ DOMAIN bufs : b <= c

\* gl.GenBuffers followed by gl.BufferData(target, bytes, ptr, usage).
BufferData(bufs, b, bytes) == [x \in DOMAIN bufs \cup {b} |-> IF x = b THEN bytes ELSE bufs[x]]

\* gl.DeleteBuffers(1, &buf): names that are 0 or unused are ignored.
DeleteBuffer(bufs, b) == [x \in DOMAIN bufs \ {b} |-> bufs[x]]

\* ------------------------------------------------------------ AttribArray

\* A nil *AttribArray.
NilArr == [nil |-> TRUE, Name |-> "", Dims |-> 0, Type |-> "none", Buf |-> 0, Len |-> 0, Cap |-> 0]

NoError == "nil"

IsPanic(e) == e \in {"panic: dimension mismatch", "panic: data length is longer than buffer",
                     "panic: data type does not match array type", "panic: invalid data length",
                     "panic: not a slice", "panic: unhandled data type"}

\* NewAttribArray with the length check left out of the allocation order:
\* the buffer is generated before the length is checked.
NewAttribArrayGenFirst(name, dims, data, bufs) ==
  LET l == data.n * Width(data.kind)
      b == GenBuffer(bufs)
  IN  IF data.n = 0
      THEN [arr |-> NilArr, err |-> "length is zero", bufs |-> bufs]
      ELSE IF Width(data.kind) > 1 /\ dims # Width(data.kind)
      THEN [arr |-> NilArr, err |-> "panic: dimension mismatch", bufs |-> bufs]
      ELSE IF data.kind \notin Supported
      THEN [arr |-> NilArr, err |-> "unhandled element type", bufs |-> bufs]
      ELSE IF l % dims # 0
      THEN [arr |-> NilArr, err |-> "length is not a multiple of elements",
            bufs |-> BufferData(bufs, b, 0)]
      ELSE [arr |-> [nil |-> FALSE, Name |-> name, Dims |-> dims, Type |-> GLType(data.kind),
                     Buf |-> b, Len |-> l, Cap |-> l],
            err |-> NoError,
            bufs |-> BufferData(bufs, b, l * ElemSize(data.kind))]

\* NewAttribArray with Len and Cap taken from val.Len() without the vector
\* cases' 'l *= 2', 'l *= 3'.
NewAttribArrayUnflattened(name, dims, data, bufs) ==
  LET l == data.n
      b == GenBuffer(bufs)
  IN  IF data.n = 0
      THEN [arr |-> NilArr, err |-> "length is zero", bufs |-> bufs]
      ELSE IF Width(data.kind) > 1 /\ dims # Width(data.kind)
      THEN [arr |-> NilArr, err |-> "panic: dimension mismatch", bufs |-> bufs]
      ELSE IF data.kind \notin Supported
      THEN [arr |-> NilArr, err |-> "unhandled element type", bufs |-> bufs]
      ELSE IF l % dims # 0
      THEN [arr |-> NilArr, err |-> "length is not a multiple of elements", bufs |-> bufs]
      ELSE [arr |-> [nil |-> FALSE, Name |-> name, Dims |-> dims, Type |-> GLType(data.kind),
                     Buf |-> b, Len |-> l, Cap |-> l],
            err |-> NoError,
            bufs |-> BufferData(bufs, b, l * ElemSize(data.kind))]

\* NewAttribArray(name, dims, data, usage) with the buffers 'bufs' in use:
\* the array returned (NilArr with an error), the error, and the buffers after.
\* 'data' is a slice (MakeMesh's checkSlice and the callers see to that).
NewAttribArray(name, dims, data, bufs) ==
  LET l == data.n * Width(data.kind)
      b == GenBuffer(bufs)
  IN  IF data.n = 0
      THEN [arr |-> NilArr, err |-> "length is zero", bufs |-> bufs]
      ELSE IF Width(data.kind) > 1 /\ dims # Width(data.kind)
      THEN [arr |-> NilArr, err |-> "panic: dimension mismatch", bufs |-> bufs]
      ELSE IF data.kind \notin Supported
      THEN [arr |-> NilArr, err |-> "unhandled element type", bufs |-> bufs]
      ELSE IF l % dims # 0
      THEN [arr |-> NilArr, err |-> "length is not a multiple of elements", bufs |-> bufs]
      ELSE [arr |-> [nil |-> FALSE, Name |-> name, Dims |-> dims, Type |-> GLType(data.kind),
                     Buf |-> b, Len |-> l, Cap |-> l],
            err |-> NoError,
            bufs |-> BufferData(bufs, b, l * ElemSize(data.kind))]

\* Update without the comparison of the data's type with the array's.
UpdateNoTypeCheck(a, data) ==
  LET l  == data.n
      a1 == [a EXCEPT !.Len = l]
      a2 == [a EXCEPT !.Len = l * Width(data.kind)]
  IN  IF l = 0 THEN [arr |-> a1, err |-> NoError, sent |-> 0]
      ELSE IF l > a.Cap
      THEN [arr |-> a1, err |-> "panic: data length is longer than buffer", sent |-> 0]
      ELSE IF Width(data.kind) > 1 /\ a.Dims # Width(data.kind)
      THEN [arr |-> a1, err |-> "panic: dimension mismatch", sent |-> 0]
      ELSE IF data.kind \notin Supported
      THEN [arr |-> a1, err |-> "unhandled element type", sent |-> 0]
      ELSE IF a2.Len % a.Dims # 0
      THEN [arr |-> a2, err |-> "panic: invalid data length", sent |-> 0]
      ELSE [arr |-> a2, err |-> NoError, sent |-> a2.Len * ElemSize(data.kind)]

\* arr.Update(data) on a non-nil array: the array after, the error (or panic),
\* and the bytes gl.BufferSubData is asked to write (0: no upload is issued).
\* arr.Len is assigned before any check, and scaled by the vector cases after
\* the comparison with arr.Cap.
Update(a, data) ==
  LET l  == data.n
      a1 == [a EXCEPT !.Len = l]
      a2 == [a EXCEPT !.Len = l * Width(data.kind)]
  IN  IF l = 0 THEN [arr |-> a1, err |-> NoError, sent |-> 0]
      ELSE IF l > a.Cap
      THEN [arr |-> a1, err |-> "panic: data length is longer than buffer", sent |-> 0]
      ELSE IF Width(data.kind) > 1 /\ a.Dims # Width(data.kind)
      THEN [arr |-> a1, err |-> "panic: dimension mismatch", sent |-> 0]
      ELSE IF data.kind \notin Supported
      THEN [arr |-> a1, err |-> "unhandled element type", sent |-> 0]
      ELSE IF a.Type # GLType(data.kind)
      THEN [arr |-> a2, err |-> "panic: data type does not match array type", sent |-> 0]
      ELSE IF a2.Len % a.Dims # 0
      THEN [arr |-> a2, err |-> "panic: invalid data length", sent |-> 0]
      ELSE [arr |-> a2, err |-> NoError, sent |-> a2.Len * ElemSize(data.kind)]

\* arr.Attribs()
Attribs(a) == a.Len \div a.Dims

\* arr.Clean() of an AttribArray or ElementArray, on the buffers: a nil
\* receiver returns at once, otherwise the buffer is deleted.
CleanBuf(a, bufs) == IF a.nil THEN bufs ELSE DeleteBuffer(bufs, a.Buf)

\* ----------------------------------------------------------- ElementArray

\* A nil *ElementArray.
NilElem == [nil |-> TRUE, Type |-> "none", Buf |-> 0, Len |-> 0, Cap |-> 0]

\* NewElementArray(data, usage); 'data' is a slice of type data.kind with
\* length data.n and capacity data.cap. The buffer is generated before the
\* type switch, whose default case panics.
NewElementArray(data, bufs) ==
  LET b == GenBuffer(bufs)
  IN  IF data.n = 0
      THEN [arr |-> NilElem, err |-> "length is zero", bufs |-> bufs]
      ELSE IF data.kind = "uint8"
      THEN [arr |-> [nil |-> FALSE, Type |-> "UNSIGNED_BYTE", Buf |-> b, Len |-> data.n, Cap |-> data.cap],
            err |-> NoError, bufs |-> BufferData(bufs, b, data.n * 1)]
      ELSE IF data.kind = "uint32"
      THEN [arr |-> [nil |-> FALSE, Type |-> "UNSIGNED_INT", Buf |-> b, Len |-> data.n, Cap |-> data.cap],
            err |-> NoError, bufs |-> BufferData(bufs, b, data.n * 4)]
      ELSE [arr |-> NilElem, err |-> "panic: unhandled data type", bufs |-> BufferData(bufs, b, 0)]

\* ------------------------------------------------------------------- Mesh

\* A name -> value map with one entry set (Go's m[k] = v).
MapPut(f, k, v) == [x \in DOMAIN f \cup {k} |-> IF x = k THEN v ELSE f[x]]

\* NewMesh(name)
NewMesh(name) ==
  [nil |-> FALSE, Name |-> name, Attribs |-> EmptyMap, Elements |-> NilElem,
   Primitive |-> 0, Vertices |-> -1]

\* A nil *Mesh.
NilMesh ==
  [nil |-> TRUE, Name |-> "", Attribs |-> EmptyMap, Elements |-> NilElem,
   Primitive |-> 0, Vertices |-> -1]

\* AddArrays without the comparison of Attribs() with m.Vertices.
RECURSIVE AddArraysNoCheck(_, _)
AddArraysNoCheck(m, arrays) ==
  IF arrays = <<>> THEN [mesh |-> m, err |-> NoError]
  ELSE LET a == Head(arrays)
       IN  IF a.nil THEN AddArraysNoCheck(m, Tail(arrays))
           ELSE AddArraysNoCheck([m EXCEPT !.Vertices = IF @ = -1 THEN Attribs(a) ELSE @,
                                           !.Attribs = MapPut(m.Attribs, a.Name, a)],
                                 Tail(arrays))

\* AddArrays undoing, when it fails, what it registered: m0 is the Mesh as
\* the call found it.
RECURSIVE AddArraysFrom(_, _, _)
AddArraysFrom(m0, m, arrays) ==
  IF arrays = <<>> THEN [mesh |-> m, err |-> NoError]
  ELSE LET a == Head(arrays)
       IN  IF a.nil THEN AddArraysFrom(m0, m, Tail(arrays))
           ELSE IF m.Vertices # -1 /\ Attribs(a) # m.Vertices
           THEN [mesh |-> m0, err |-> "AttribArray sizes are inconsistent"]
           ELSE AddArraysFrom(m0, [m EXCEPT !.Vertices = Attribs(a),
                                            !.Attribs = MapPut(m.Attribs, a.Name, a)],
                              Tail(arrays))

AddArraysRollsBack(m, arrays) == AddArraysFrom(m, m, arrays)

\* m.AddArrays(arrays...): the mesh after the call and the error. The loop
\* returns at the first array whose Attribs() differs from m.Vertices; what
\* the arrays before it changed stays.
RECURSIVE AddArrays(_, _)
AddArrays(m, arrays) ==
  IF arrays = <<>> THEN [mesh |-> m, err |-> NoError]
  ELSE LET a == Head(arrays)
       IN  IF a.nil THEN AddArrays(m, Tail(arrays))
           ELSE IF m.Vertices = -1
           THEN AddArrays([m EXCEPT !.Vertices = Attribs(a),
                                    !.Attribs = MapPut(m.Attribs, a.Name, a)], Tail(arrays))
           ELSE IF Attribs(a) # m.Vertices
           THEN [mesh |-> m, err |-> "AttribArray sizes are inconsistent"]
           ELSE AddArrays([m EXCEPT !.Attribs = MapPut(m.Attribs, a.Name, a)], Tail(arrays))

\* --------------------------------------------------------------- MakeMesh

\* A nil interface{} argument (no such channel).
NilData == [kind |-> "nil", n |-> 0]

\* fmt.Sprintf("texcoord%d", i)
TexName(i) == "texcoord" \o ToString(i)

\* The loop over texcoords, from index i (0-based) on: texcarr as the loop
\* leaves it (texcarr[i] is nil where NewAttribArray failed and past it), the
\* error it stopped at, and the buffers.
RECURSIVE TexLoop(_, _, _, _)
TexLoop(texcoords, i, texcarr, bufs) ==
  IF i >= Len(texcoords) THEN [arrs |-> texcarr, err |-> NoError, bufs |-> bufs]
  ELSE LET r == NewAttribArray(TexName(i), 2, texcoords[i + 1], bufs)
       IN  IF r.err # NoError
           THEN [arrs |-> [texcarr EXCEPT ![i + 1] = r.arr], err |-> r.err, bufs |-> r.bufs]
           ELSE TexLoop(texcoords, i + 1, [texcarr EXCEPT ![i + 1] = r.arr], r.bufs)

\* The buffers after arr.Clean() of every array of a sequence.
RECURSIVE CleanAll(_, _)
CleanAll(arrs, bufs) ==
  IF arrs = <<>> THEN bufs ELSE CleanAll(Tail(arrs), CleanBuf(Head(arrs), bufs))

\* The deferred function of MakeMesh and the return: with err set, Clean of
\* posarr, colarr, nrmarr, every texcarr[i] and elemarr as the variables stand
\* at that point, and a nil mesh. A panic unwinds through the deferred
\* function with err still nil (the assignment that would have set it never
\* happened), so nothing is cleaned.
Return(m, err, posarr, colarr, nrmarr, texcarr, elemarr, bufs, bufs0) ==
  IF err = NoError
  THEN [mesh |-> m, err |-> err, bufs |-> bufs, made |-> DOMAIN bufs \ DOMAIN bufs0]
  ELSE IF IsPanic(err)
  THEN [mesh |-> NilMesh, err |-> err, bufs |-> bufs, made |-> DOMAIN bufs \ DOMAIN bufs0]
  ELSE [mesh |-> NilMesh, err |-> err,
        bufs |-> CleanBuf(elemarr, CleanAll(texcarr,
                   CleanBuf(nrmarr, CleanBuf(colarr, CleanBuf(posarr, bufs))))),
        made |-> DOMAIN bufs \ DOMAIN bufs0]

\* The 'if nrms != nil' block of MakeMesh: checkSlice is handed cols (it
\* panics when cols is nil), and the new array is assigned to colarr; nrmarr
\* stays nil.
NormalStep(cols, nrms, colarr, bufs) ==
  IF nrms.kind = "nil" THEN [colarr |-> colarr, nrmarr |-> NilArr, err |-> NoError, bufs |-> bufs]
  ELSE IF cols.kind = "nil"
  THEN [colarr |-> colarr, nrmarr |-> NilArr, err |-> "panic: not a slice", bufs |-> bufs]
  ELSE LET r == NewAttribArray("normal", 3, nrms, bufs)
       IN  [colarr |-> r.arr, nrmarr |-> NilArr, err |-> r.err, bufs |-> r.bufs]

\* MakeMesh(name, dims, prim, pos, cols, nrms, texcoords, elems) with the
\* buffers bufs0 in use; pos and elems are slices (non-nil).
MakeMesh(name, dims, prim, pos, cols, nrms, texcoords, elems, bufs0) ==
  LET texc0 == [i \in 1..Len(texcoords) |-> NilArr]
      p == NewAttribArray("pos", dims, pos, bufs0)
  IN  IF p.err # NoError
      THEN Return(NilMesh, p.err, p.arr, NilArr, NilArr, texc0, NilElem, p.bufs, bufs0)
      ELSE
  LET c == IF cols.kind = "nil" THEN [arr |-> NilArr, err |-> NoError, bufs |-> p.bufs]
           ELSE NewAttribArray("color", 4, cols, p.bufs)
  IN  IF c.err # NoError
      THEN Return(NilMesh, c.err, p.arr, c.arr, NilArr, texc0, NilElem, c.bufs, bufs0)
      ELSE
  LET n == NormalStep(cols, nrms, c.arr, c.bufs)
  IN  IF n.err # NoError
      THEN Return(NilMesh, n.err, p.arr, n.colarr, n.nrmarr, texc0, NilElem, n.bufs, bufs0)
      ELSE
  LET t == TexLoop(texcoords, 0, texc0, n.bufs)
  IN  IF t.err # NoError
      THEN Return(NilMesh, t.err, p.arr, n.colarr, n.nrmarr, t.arrs, NilElem, t.bufs, bufs0)
      ELSE
  LET e == NewElementArray(elems, t.bufs)
  IN  IF e.err # NoError
      THEN Return(NilMesh, e.err, p.arr, n.colarr, n.nrmarr, t.arrs, e.arr, e.bufs, bufs0)
      ELSE
  LET a1 == AddArrays(NewMesh(name), <<p.arr, n.colarr, n.nrmarr>>)
  IN  IF a1.err # NoError
      THEN Return(NilMesh, a1.err, p.arr, n.colarr, n.nrmarr, t.arrs, e.arr, e.bufs, bufs0)
      ELSE
  LET a2 == AddArrays(a1.mesh, t.arrs)
  IN  IF a2.err # NoError
      THEN Return(NilMesh, a2.err, p.arr, n.colarr, n.nrmarr, t.arrs, e.arr, e.bufs, bufs0)
      ELSE Return([a2.mesh EXCEPT !.Elements = e.arr, !.Primitive = prim],
                  NoError, p.arr, n.colarr, n.nrmarr, t.arrs, e.arr, e.bufs, bufs0)

\* ---------------------------------------------------------------- Manager

\* The Managers: NewManager(nil) made Manager 1, and NewManager of Manager
\* m - 1 made Manager m (a chain of NumManagers Managers).
NumManagers == 2

Managers == 1..NumManagers

\* am.Parent (0: nil)
Parent(m) == m - 1

\* The Managers a lookup on m visits: m and its ancestors.
RECURSIVE Chain(_)
Chain(m) == IF m = 0 THEN {} ELSE {m} \cup Chain(Parent(m))

\* The largest shader/program name the model lets OpenGL hand out (shader and
\* program objects share one name space).
MaxHandles == 3

Handles == 1..MaxHandles

\* The names gl.CreateShader and gl.CreateProgram choose from: one more than
\* MaxHandles, for the specification without Clean, which lets that many be
\* in use.
AllHandles == 1..(MaxHandles + 1)

\* The resources callers have registered through Add<Kind> at one time: with
\* MaxRes entries in the Managers' maps, no further Add is made until a Clean
\* (an Add that fails is made at any time).
MaxRes == 2

\* The objects: one more than can be registered, so that a caller always has
\* an unregistered one to hand in.
Objs == 1..(MaxRes + 1)

AlreadyExists == "already exists"

\* GetMaterial looking in the parent before the local map.
RECURSIVE GetMaterialParentFirst(_, _, _)
GetMaterialParentFirst(mats, m, name) ==
  LET up == IF Parent(m) # 0 THEN GetMaterialParentFirst(mats, Parent(m), name)
            ELSE [val |-> 0, ok |-> FALSE]
  IN  IF up.ok THEN up
      ELSE IF name \in DOMAIN mats[m] THEN [val |-> mats[m][name], ok |-> TRUE]
      ELSE [val |-> 0, ok |-> FALSE]

\* am.GetMaterial(name), on the Materials maps 'mats'
RECURSIVE GetMaterial(_, _, _)
GetMaterial(mats, m, name) ==
  IF name \in DOMAIN mats[m] THEN [val |-> mats[m][name], ok |-> TRUE]
  ELSE IF Parent(m) # 0 THEN GetMaterial(mats, Parent(m), name)
  ELSE [val |-> 0, ok |-> FALSE]

\* am.GetMesh(name)
RECURSIVE GetMesh(_, _, _)
GetMesh(meshes, m, name) ==
  IF name \in DOMAIN meshes[m] THEN [val |-> meshes[m][name], ok |-> TRUE]
  ELSE IF Parent(m) # 0 THEN GetMesh(meshes, Parent(m), name)
  ELSE [val |-> 0, ok |-> FALSE]

\* GetShader looking in every Manager of the chain, the descendants of m
\* included.
GetShaderInAnyManager(shaders, m, name) ==
  IF \E k \in Managers : name \in DOMAIN shaders[k]
  THEN [val |-> shaders[CHOOSE k \in Managers : name \in DOMAIN shaders[k]][name], ok |-> TRUE]
  ELSE [val |-> 0, ok |-> FALSE]

\* am.GetShader(name)
RECURSIVE GetShader(_, _, _)
GetShader(shaders, m, name) ==
  IF name \in DOMAIN shaders[m] THEN [val |-> shaders[m][name], ok |-> TRUE]
  ELSE IF Parent(m) # 0 THEN GetShader(shaders, Parent(m), name)
  ELSE [val |-> 0, ok |-> FALSE]

\* am.GetProgram(set)
RECURSIVE GetProgram(_, _, _)
GetProgram(progs, m, set) ==
  IF set \in DOMAIN progs[m] THEN [val |-> progs[m][set], ok |-> TRUE]
  ELSE IF Parent(m) # 0 THEN GetProgram(progs, Parent(m), set)
  ELSE [val |-> 0, ok |-> FALSE]

\* am.GetTexture(name)
RECURSIVE GetTexture(_, _, _)
GetTexture(texs, m, name) ==
  IF name \in DOMAIN texs[m] THEN [val |-> texs[m][name], ok |-> TRUE]
  ELSE IF Parent(m) # 0 THEN GetTexture(texs, Parent(m), name)
  ELSE [val |-> 0, ok |-> FALSE]

\* am.AddMaterial(mat), mat.Name = name: the maps after and the error.
AddMaterial(mats, m, name, mat) ==
  IF name \in DOMAIN mats[m] THEN [maps |-> mats, err |-> AlreadyExists]
  ELSE [maps |-> [mats EXCEPT ![m] = MapPut(@, name, mat)], err |-> NoError]

\* am.AddMesh(mesh), mesh.Name = name
AddMesh(meshes, m, name, msh) ==
  IF name \in DOMAIN meshes[m] THEN [maps |-> meshes, err |-> AlreadyExists]
  ELSE [maps |-> [meshes EXCEPT ![m] = MapPut(@, name, msh)], err |-> NoError]

\* am.AddShader(name, shader): the existence test is am.GetShader, which
\* also looks in the ancestors.
AddShader(shaders, m, name, shader) ==
  IF GetShader(shaders, m, name).ok THEN [maps |-> shaders, err |-> AlreadyExists]
  ELSE [maps |-> [shaders EXCEPT ![m] = MapPut(@, name, shader)], err |-> NoError]

\* am.AddProgram(set, prog): the existence test is am.GetProgram, which also
\* looks in the ancestors.
AddProgram(progs, m, set, prog) ==
  IF GetProgram(progs, m, set).ok THEN [maps |-> progs, err |-> AlreadyExists]
  ELSE [maps |-> [progs EXCEPT ![m] = MapPut(@, set, prog)], err |-> NoError]

\* am.AddTexture(t), t.Name = name
AddTexture(texs, m, name, tex) ==
  IF name \in DOMAIN texs[m] THEN [maps |-> texs, err |-> AlreadyExists]
  ELSE [maps |-> [texs EXCEPT ![m] = MapPut(@, name, tex)], err |-> NoError]

\* gl.CreateShader / gl.CreateProgram: an unused name, the lowest one
\* (MaxHandles + 2 when the model's names are used up).
GenName(sh, pr) ==
  LET free == AllHandles \ (DOMAIN sh \cup pr)
  IN  IF free = {} THEN MaxHandles + 2
      ELSE CHOOSE h \in free : \A k \in free : h <= k

\* What happens to a shader file: it compiles, its compilation leaves an
\* info log, or it cannot be opened.
Outcomes == {"ok", "badsource", "nofile"}

\* newShader(file, typ), with the shader objects sh in use and s the name
\* gl.CreateShader returns: the handle, the error, and the shader objects
\* after. A compilation that leaves an info log returns 0 and
\* the log; the shader object created for it is not deleted.
newShader(sh, s, typ, outcome) ==
  IF outcome = "nofile" THEN [shader |-> 0, err |-> "open", sh |-> sh]
  ELSE IF outcome = "badsource"
  THEN [shader |-> 0, err |-> "compile log", sh |-> MapPut(sh, s, typ)]
  ELSE [shader |-> s, err |-> NoError, sh |-> MapPut(sh, s, typ)]

\* LoadShader after its lookup, registering the name also when newShader
\* failed.
LoadShaderGotRegistersFailure(got, new, shaders, sh, m, name) ==
  IF got.ok THEN [shader |-> got.val, err |-> NoError, maps |-> shaders, sh |-> sh]
  ELSE [shader |-> new.shader, err |-> new.err,
        maps |-> AddShader(shaders, m, name, new.shader).maps, sh |-> new.sh]

\* LoadShader after its lookup: got is what am.GetShader(name) returned, new
\* what newShader returns if it is called.
LoadShaderGot(got, new, shaders, sh, m, name) ==
  IF got.ok THEN [shader |-> got.val, err |-> NoError, maps |-> shaders, sh |-> sh]
  ELSE IF new.err # NoError
  THEN [shader |-> 0, err |-> new.err, maps |-> shaders, sh |-> new.sh]
  ELSE [shader |-> new.shader, err |-> NoError,
        maps |-> AddShader(shaders, m, name, new.shader).maps, sh |-> new.sh]

\* am.LoadShader(typ, name): the handle, the error, the Shaders maps and the
\* shader objects after.
LoadShader(shaders, sh, pr, m, typ, name, outcome) ==
  LoadShaderGot(GetShader(shaders, m, name), newShader(sh, GenName(sh, pr), typ, outcome),
                shaders, sh, m, name)

\* The result of LoadProgram: the program, the error, the maps and OpenGL
\* objects after, and whether a program was created and linked.
ProgResult(prog, err, shaders, progs, sh, pr, linked) ==
  [prog |-> prog, err |-> err, shaders |-> shaders, progs |-> progs, sh |-> sh, pr |-> pr,
   linked |-> linked]

\* LoadProgram from its lookup of the stage set on: g is the state the three
\* LoadShader calls left, got what am.GetProgram(set) returned, prog the name
\* gl.CreateProgram returns. A link that leaves an info log returns 0 and the
\* log; the program object created for it is not deleted.
LoadProgramLink(g, set, got, prog, progs, pr, m, linkok) ==
  IF got.ok THEN ProgResult(got.val, NoError, g.maps, progs, g.sh, pr, FALSE)
  ELSE IF ~linkok THEN ProgResult(0, "link log", g.maps, progs, g.sh, pr \cup {prog}, TRUE)
  ELSE ProgResult(prog, NoError, g.maps, AddProgram(progs, m, set, prog).maps,
                  g.sh, pr \cup {prog}, TRUE)

\* LoadProgram from the geometry stage's result g on ('cached': whether the
\* stage set is looked up before linking, as the code does).
LoadProgramGeometry(cached, v, f, g, progs, pr, m, linkok) ==
  IF g.err # NoError THEN ProgResult(0, g.err, g.maps, progs, g.sh, pr, FALSE)
  ELSE LoadProgramLink(g, <<v.shader, f.shader, g.shader>>,
                       IF cached THEN GetProgram(progs, m, <<v.shader, f.shader, g.shader>>)
                       ELSE [val |-> 0, ok |-> FALSE],
                       GenName(g.sh, pr), progs, pr, m, linkok)

\* LoadProgram from the fragment stage's result f on.
LoadProgramFragment(cached, v, f, progs, pr, m, gfile, outs, linkok) ==
  IF f.err # NoError THEN ProgResult(0, f.err, f.maps, progs, f.sh, pr, FALSE)
  ELSE LoadProgramGeometry(cached, v, f,
         IF gfile # "" THEN LoadShader(f.maps, f.sh, pr, m, "GEOMETRY_SHADER", gfile, outs[3])
         ELSE [shader |-> 0, err |-> NoError, maps |-> f.maps, sh |-> f.sh],
         progs, pr, m, linkok)

\* LoadProgram from the vertex stage's result v on.
LoadProgramVertex(cached, v, progs, pr, m, ffile, gfile, outs, linkok) ==
  IF v.err # NoError THEN ProgResult(0, v.err, v.maps, progs, v.sh, pr, FALSE)
  ELSE LoadProgramFragment(cached, v,
         LoadShader(v.maps, v.sh, pr, m, "FRAGMENT_SHADER", ffile, outs[2]),
         progs, pr, m, gfile, outs, linkok)

\* LoadProgram without the lookup of the stage set: every call links.
LoadProgramAlwaysLinks(shaders, progs, sh, pr, m, vfile, ffile, gfile, outs, linkok) ==
  LoadProgramVertex(FALSE, LoadShader(shaders, sh, pr, m, "VERTEX_SHADER", vfile, outs[1]),
                    progs, pr, m, ffile, gfile, outs, linkok)

\* am.LoadProgram(vfile, ffile, gfile). outs[i] is what happens to the i-th
\* file if it has to be compiled, linkok whether a link leaves no info log.
LoadProgram(shaders, progs, sh, pr, m, vfile, ffile, gfile, outs, linkok) ==
  LoadProgramVertex(TRUE, LoadShader(shaders, sh, pr, m, "VERTEX_SHADER", vfile, outs[1]),
                    progs, pr, m, ffile, gfile, outs, linkok)

\* The values of a map.
Range(f) == {f[x] : x \in DOMAIN f}

\* ------------------------------------------------ the Manager's operations

NoMgrCall == [op |-> "none", m |-> 0, key |-> "", val |-> 0]

MgrInit ==
  /\ Materials = [m \in Managers |-> EmptyMap]
  /\ Meshes = [m \in Managers |-> EmptyMap]
  /\ Shaders = [m \in Managers |-> EmptyMap]
  /\ Programs = [m \in Managers |-> EmptyMap]
  /\ Textures = [m \in Managers |-> EmptyMap]
  /\ matProg = [o \in Objs |-> 0]
  /\ meshLive = {}
  /\ texLive = {}
  /\ glShaders = EmptyMap
  /\ glPrograms = {}
  /\ gcall = NoMgrCall
  /\ gret = 0
  /\ gerr = NoError
  /\ linkedNow = FALSE
  /\ okProg = [m \in Managers |-> EmptyMap]
  /\ prevOk = 0

\* The names under which Materials, Meshes and Textures are registered.
ObjNames == {"M"}

\* The shader files.
ShaderFiles == {"a", "b"}

\* The stage a caller compiles a file for: "a" is a vertex shader's source,
\* "b" a fragment shader's.
StageOf(name) == IF name = "a" THEN "VERTEX_SHADER" ELSE "FRAGMENT_SHADER"

\* The (vertex, fragment, geometry) file arguments LoadProgram is called with.
ProgFiles == {<<"a", "b", "">>, <<"a", "a", "">>, <<"a", "b", "b">>}

\* The objects of one kind registered in some Manager.
Registered(maps) == UNION {Range(maps[m]) : m \in Managers}

\* The number of resources registered in the Managers.
RECURSIVE Entries(_)
Entries(m) ==
  IF m = 0 THEN 0
  ELSE Cardinality(DOMAIN Materials[m]) + Cardinality(DOMAIN Meshes[m])
       + Cardinality(DOMAIN Shaders[m]) + Cardinality(DOMAIN Programs[m])
       + Cardinality(DOMAIN Textures[m]) + Entries(m - 1)

\* The object a caller builds next: one that no Manager holds.
NewObj(maps) == CHOOSE o \in Objs \ Registered(maps) : \A k \in Objs \ Registered(maps) : o <= k

otherMgrVars == <<gret, linkedNow, okProg, prevOk>>

\* A caller builds a Material (NewMaterial, SetProgram) and registers it.
DoAddMaterial ==
  \E m \in Managers, name \in ObjNames :
    LET mat == NewObj(Materials)
        r   == AddMaterial(Materials, m, name, mat)
    IN  /\ r.err # NoError \/ Entries(NumManagers) < MaxRes
        /\ Materials' = r.maps
        /\ gerr' = r.err
        /\ gcall' = [op |-> "AddMaterial", m |-> m, key |-> name, val |-> mat]
        /\ matProg' = IF r.err = NoError THEN [matProg EXCEPT ![mat] = 1] ELSE matProg
        /\ UNCHANGED <<Meshes, Shaders, Programs, Textures, meshLive, texLive,
                       glShaders, glPrograms, otherMgrVars>>

\* A caller builds a Mesh and registers it.
DoAddMesh ==
  \E m \in Managers, name \in ObjNames :
    LET msh == NewObj(Meshes)
        r   == AddMesh(Meshes, m, name, msh)
    IN  /\ r.err # NoError \/ Entries(NumManagers) < MaxRes
        /\ Meshes' = r.maps
        /\ gerr' = r.err
        /\ gcall' = [op |-> "AddMesh", m |-> m, key |-> name, val |-> msh]
        /\ meshLive' = IF r.err = NoError THEN meshLive \cup {msh} ELSE meshLive
        /\ UNCHANGED <<Materials, Shaders, Programs, Textures, matProg, texLive,
                       glShaders, glPrograms, otherMgrVars>>

\* A caller builds a Texture and registers it.
DoAddTexture ==
  \E m \in Managers, name \in ObjNames :
    LET tex == NewObj(Textures)
        r   == AddTexture(Textures, m, name, tex)
    IN  /\ r.err # NoError \/ Entries(NumManagers) < MaxRes
        /\ Textures' = r.maps
        /\ gerr' = r.err
        /\ gcall' = [op |-> "AddTexture", m |-> m, key |-> name, val |-> tex]
        /\ texLive' = IF r.err = NoError THEN texLive \cup {tex} ELSE texLive
        /\ UNCHANGED <<Materials, Meshes, Shaders, Programs, matProg, meshLive,
                       glShaders, glPrograms, otherMgrVars>>

\* A caller compiles a shader itself and registers it; when the Manager
\* refuses it, the caller deletes it.
DoAddShader ==
  \E m \in Managers, name \in ShaderFiles :
    LET s == GenName(glShaders, glPrograms)
        r == AddShader(Shaders, m, name, s)
    IN  /\ s \in Handles
        /\ r.err # NoError \/ Entries(NumManagers) < MaxRes
        /\ Shaders' = r.maps
        /\ gerr' = r.err
        /\ gcall' = [op |-> "AddShader", m |-> m, key |-> name, val |-> s]
        /\ glShaders' = IF r.err = NoError THEN MapPut(glShaders, s, StageOf(name))
                        ELSE glShaders
        /\ UNCHANGED <<Materials, Meshes, Programs, Textures, matProg, meshLive, texLive,
                       glPrograms, otherMgrVars>>

\* The stage sets (ShaderSet{Vs, Fs, Gs}) a caller registers a program of its
\* own under.
CallerSets == {<<1, 2, 0>>, <<1, 1, 0>>}

\* A caller links a program itself and registers it; when the Manager
\* refuses it, the caller deletes it.
DoAddProgram ==
  \E m \in Managers, set \in CallerSets :
    LET p == GenName(glShaders, glPrograms)
        r == AddProgram(Programs, m, set, p)
    IN  /\ p \in Handles
        /\ r.err # NoError \/ Entries(NumManagers) < MaxRes
        /\ Programs' = r.maps
        /\ gerr' = r.err
        /\ gcall' = [op |-> "AddProgram", m |-> m, key |-> set, val |-> p]
        /\ glPrograms' = IF r.err = NoError THEN glPrograms \cup {p} ELSE glPrograms
        /\ UNCHANGED <<Materials, Meshes, Shaders, Textures, matProg, meshLive, texLive,
                       glShaders, otherMgrVars>>

\* What can happen to file 'name' in a call on Manager m: nothing when a
\* shader is registered under the name, since the file is not read then.
OutcomesOf(m, name) == IF GetShader(Shaders, m, name).ok THEN {"ok"} ELSE Outcomes

\* am.LoadShader(typ, name), with the names in hs to hand out.
LoadShaderStep(m, name, typ, hs) ==
    \E outcome \in OutcomesOf(m, name) :
      \E r \in {LoadShader(Shaders, glShaders, glPrograms, m, typ, name, outcome)} :
          /\ DOMAIN r.sh \subseteq hs
          /\ Shaders' = r.maps
          /\ glShaders' = r.sh
          /\ gret' = r.shader
          /\ gerr' = r.err
          /\ gcall' = [op |-> "LoadShader", m |-> m, key |-> name, val |-> typ]
          /\ UNCHANGED <<Materials, Meshes, Programs, Textures, matProg, meshLive, texLive,
                         glPrograms, linkedNow, okProg, prevOk>>

\* am.LoadShader(typ, name), each file for the stage it is the source of.
DoLoadShader ==
  \E m \in Managers, name \in ShaderFiles :
    LoadShaderStep(m, name, StageOf(name), Handles)

\* okProg of Manager m for the files 'files' (0: none).
OkProgOf(m, files) == IF files \in DOMAIN okProg[m] THEN okProg[m][files] ELSE 0

\* What can happen to each file in a call of LoadProgram on Manager m: nothing
\* to a file the call does not name or does not read.
FileOutcomes(m, files) ==
  {fo \in [ShaderFiles -> Outcomes] :
     \A f \in ShaderFiles :
        (f \notin {files[1], files[2], files[3]} \/ GetShader(Shaders, m, f).ok) => fo[f] = "ok"}

\* am.LoadProgram(vfile, ffile, gfile), with the names in hs to hand out.
LoadProgramStep(m, files, hs) ==
  \E linkok \in BOOLEAN :
    \E fo \in FileOutcomes(m, files) :
      \E r \in {LoadProgram(Shaders, Programs, glShaders, glPrograms, m,
                           files[1], files[2], files[3],
                           <<fo[files[1]], fo[files[2]],
                             IF files[3] = "" THEN "ok" ELSE fo[files[3]]>>, linkok)} :
          /\ DOMAIN r.sh \cup r.pr \subseteq hs
          /\ Shaders' = r.shaders
          /\ Programs' = r.progs
          /\ glShaders' = r.sh
          /\ glPrograms' = r.pr
          /\ gret' = r.prog
          /\ gerr' = r.err
          /\ linkedNow' = r.linked
          /\ gcall' = [op |-> "LoadProgram", m |-> m, key |-> files, val |-> 0]
          /\ prevOk' = OkProgOf(m, files)
          /\ okProg' = IF r.err = NoError
                       THEN [okProg EXCEPT ![m] = MapPut(@, files, r.prog)]
                       ELSE okProg
          /\ UNCHANGED <<Materials, Meshes, Textures, matProg, meshLive, texLive>>

\* am.LoadProgram(vfile, ffile, gfile)
DoLoadProgram ==
  \E m \in Managers, files \in ProgFiles : LoadProgramStep(m, files, Handles)

\* The values the maps of the Managers in ms hold.
Held(maps, ms) == UNION {Range(maps[m]) : m \in ms}

\* A call of Clean on m that cleans the Managers ms: Material.Clean
\* (Prog = 0), Mesh.Clean and Texture.Clean of every object in their maps,
\* gl.DeleteProgram and gl.DeleteShader of every handle in them, and every
\* entry deleted.
CleanStep(m, ms) ==
  /\ Materials' = [k \in Managers |-> IF k \in ms THEN EmptyMap ELSE Materials[k]]
  /\ matProg' = [o \in Objs |-> IF o \in Held(Materials, ms) THEN 0 ELSE matProg[o]]
  /\ Meshes' = [k \in Managers |-> IF k \in ms THEN EmptyMap ELSE Meshes[k]]
  /\ meshLive' = meshLive \ Held(Meshes, ms)
  /\ Programs' = [k \in Managers |-> IF k \in ms THEN EmptyMap ELSE Programs[k]]
  /\ glPrograms' = glPrograms \ Held(Programs, ms)
  /\ Shaders' = [k \in Managers |-> IF k \in ms THEN EmptyMap ELSE Shaders[k]]
  /\ glShaders' = [h \in DOMAIN glShaders \ Held(Shaders, ms) |-> glShaders[h]]
  /\ Textures' = [k \in Managers |-> IF k \in ms THEN EmptyMap ELSE Textures[k]]
  /\ texLive' = texLive \ Held(Textures, ms)
  /\ gcall' = [op |-> "Clean", m |-> m, key |-> "", val |-> 0]
  /\ gerr' = NoError
  /\ okProg' = [k \in Managers |-> IF Chain(k) \cap ms # {} THEN EmptyMap ELSE okProg[k]]
  /\ UNCHANGED <<gret, linkedNow, prevOk>>

\* Clean recursing into the ancestors.
DoCleanWithParents == \E m \in Managers : CleanStep(m, Chain(m))

\* am.Clean(): the Manager's own maps only.
DoClean == \E m \in Managers : CleanStep(m, {m})

\* ------------------------------------------------ SpecArr: one AttribArray

NoCall == [op |-> "none", dims |-> 0, data |-> [kind |-> "uint8", n |-> 0]]

ArrData == DataOf(Kinds, 0..MaxLen)

\* The variables of each part before anything is done with it.
ArrIdle ==
  /\ arr = NilArr
  /\ arr0 = NilArr
  /\ acall = NoCall
  /\ aerr = NoError

NoMeshCall ==
  [op |-> "none", dims |-> 0, pos |-> NilData, cols |-> NilData, nrms |-> NilData,
   texcoords |-> <<>>, elems |-> [kind |-> "nil", n |-> 0, cap |-> 0]]

MeshIdle ==
  /\ mesh = NilMesh
  /\ merr = NoError
  /\ mmade = {}
  /\ mcall = NoMeshCall

ExtIdle ==
  /\ elem = NilElem
  /\ deleted = [o \in {"attrib", "element"} |-> <<>>]
  /\ cleans = [o \in {"attrib", "element"} |-> 0]
  /\ tret = [nil |-> TRUE, list |-> <<>>]
  /\ opened = <<>>
  /\ texture = [nil |-> TRUE, Tex |-> 0, Buf |-> 0, W |-> 0, H |-> 0]
  /\ glTextures = [x \in {} |-> 0]
  /\ tcall = [op |-> "none"]
  /\ terr = "nil"
  /\ upl = [rows |-> <<>>, gl |-> <<>>]
  /\ material = [nil |-> TRUE, Name |-> "", Prog |-> 0, UniformLocs |-> [x \in {} |-> 0]]
  /\ ucall = [op |-> "none", prog |-> 0, names |-> <<>>, uniforms |-> <<>>]
  /\ uerr = [kind |-> "nil", mat |-> "", uniform |-> ""]
  /\ usets = <<>>
  /\ marray = 0
  /\ glArrays = {}
  /\ binds = <<>>
  /\ esent = 0

InitArr ==
  /\ glBuffers = EmptyMap
  /\ ArrIdle
  /\ MeshIdle
  /\ MgrInit
  /\ ExtIdle

\* A caller creates the array.
DoNewAttribArray ==
  /\ arr.nil
  /\ ~IsPanic(aerr)
  /\ \E dims \in 1..MaxDims, data \in ArrData :
       LET r == NewAttribArray("a", dims, data, glBuffers)
       IN  /\ arr' = r.arr
           /\ arr0' = r.arr
           /\ glBuffers' = r.bufs
           /\ aerr' = r.err
           /\ acall' = [op |-> "New", dims |-> dims, data |-> data]
           /\ UNCHANGED <<meshVars, mgrVars, extVars>>

\* A caller updates the array it holds.
DoUpdate ==
  /\ ~arr.nil
  /\ ~IsPanic(aerr)
  /\ \E data \in ArrData :
       LET r == Update(arr, data)
       IN  /\ arr' = r.arr
           /\ aerr' = r.err
           /\ acall' = [op |-> "Update", dims |-> arr.Dims, data |-> data]
           /\ UNCHANGED <<arr0, glBuffers, meshVars, mgrVars, extVars>>

NextArr == DoNewAttribArray \/ DoUpdate

SpecArr == InitArr /\ [][NextArr]_vars

\* The last call's data, flattened to scalars.
Flat(data) == data.n * Width(data.kind)

\* C6: in every state NewAttribArray and Update calls reach (those a panic
\* leaves aside), the array has Len % Dims = 0, Len <= Cap, and the Type it
\* was created with.
C6_ArrayInvariants ==
  (~arr.nil /\ ~IsPanic(aerr)) =>
     /\ arr.Len % arr.Dims = 0
     /\ arr.Len <= arr.Cap
     /\ arr.Type = arr0.Type

OtherType == acall.op = "Update" /\ GLType(acall.data.kind) # arr.Type

\* C9 as stated: an Update with data of another element type than the
\* array's fails with the type-mismatch failure, whatever the data's length.
C9_UpdateTypeMismatch ==
  OtherType => aerr = "panic: data type does not match array type"

\* C9, amended: it does so for data of a listed type with a length in
\* 1..Cap (a vector slice also needs its size to be Dims); empty data of any
\* type is accepted with Len = 0, and data longer than Cap fails with the
\* length panic whatever its type.
C9_UpdateTypeMismatchInRange ==
  acall.op = "Update" =>
     /\ (OtherType /\ acall.data.kind \in Supported
           /\ acall.data.n >= 1 /\ acall.data.n <= arr.Cap
           /\ (Width(acall.data.kind) = 1 \/ Width(acall.data.kind) = arr.Dims)) =>
           aerr = "panic: data type does not match array type"
     /\ acall.data.n = 0 => (aerr = NoError /\ arr.Len = 0)
     /\ acall.data.n > arr.Cap => aerr = "panic: data length is longer than buffer"

\* C9's case: a float64 slice that fits has been refused by a float32 array.
C9_Witness ==
  /\ OtherType /\ acall.data.kind = "float64" /\ acall.data.n <= arr.Cap
  /\ arr.Type = "FLOAT"
  /\ aerr = "panic: data type does not match array type"

\* C10: an Update whose data, flattened to scalars, is longer than Cap fails
\* with the length failure, and Cap is what it was at creation. The claim is
\* stated on data no other check of Update refuses (a listed type, the
\* array's OpenGL type, a vector size equal to Dims), so that the length
\* check alone decides.
C10_UpdateOverCapacity ==
  /\ (acall.op = "Update" /\ Flat(acall.data) > arr.Cap
        /\ acall.data.kind \in Supported /\ GLType(acall.data.kind) = arr.Type
        /\ (Width(acall.data.kind) = 1 \/ Width(acall.data.kind) = arr.Dims)) =>
        aerr = "panic: data length is longer than buffer"
  /\ ~arr.nil => arr.Cap = arr0.Cap

\* ------------------------------------------------- SpecMesh: one MakeMesh

\* The most vertices a channel handed to MakeMesh describes.
MaxVerts == 2

\* The most texcoord channels handed to MakeMesh.
MaxTex == 2

\* The 'dims' MakeMesh is called with.
PosDims == {2, 3}

\* The data for a channel of d scalars per vertex: a float32 slice that is
\* empty, holds 1..MaxVerts vertices or holds one scalar too many.
ChanData(d) == [kind : {"float32"}, n : {0, d + 1} \cup {v * d : v \in 1..MaxVerts}]

\* The data for 'pos': as for any channel, or a slice of a type the switch
\* does not list, or a slice of one 2D vector.
PosData(d) == ChanData(d) \cup [kind : {"int32"}, n : {d}] \cup [kind : {"vec2f"}, n : {1}]

\* The data for a texcoord channel: empty, or 1..MaxVerts vertices.
TexData == [kind : {"float32"}, n : {0} \cup {v * 2 : v \in 1..MaxVerts}]

\* The sequences of at most n texcoord channels.
RECURSIVE TexSeqs(_)
TexSeqs(n) ==
  IF n = 0 THEN {<<>>}
  ELSE TexSeqs(n - 1) \cup {Append(s, d) : s \in {q \in TexSeqs(n - 1) : Len(q) = n - 1}, d \in TexData}

\* The element slices: empty, or three indices with or without spare capacity.
ElemData ==
  {[kind |-> k, n |-> 0, cap |-> 0] : k \in {"uint8", "float32"}}
    \cup {[kind |-> k, n |-> 3, cap |-> c] : k \in {"uint8", "float32"}, c \in {3, 4}}

InitMesh ==
  /\ glBuffers = EmptyMap
  /\ ArrIdle
  /\ MeshIdle
  /\ MgrInit
  /\ ExtIdle

\* A caller builds a mesh.
DoMakeMesh ==
  /\ mcall.op = "none"
  /\ \E dims \in PosDims : \E pos \in PosData(dims),
        cols \in ChanData(4) \cup {NilData}, nrms \in ChanData(3) \cup {NilData},
        texcoords \in TexSeqs(MaxTex), elems \in ElemData :
       LET r == MakeMesh("m", dims, 4, pos, cols, nrms, texcoords, elems, glBuffers)
       IN  /\ mesh' = r.mesh
           /\ merr' = r.err
           /\ mmade' = r.made
           /\ glBuffers' = r.bufs
           /\ mcall' = [op |-> "MakeMesh", dims |-> dims, pos |-> pos, cols |-> cols,
                        nrms |-> nrms, texcoords |-> texcoords, elems |-> elems]
           /\ UNCHANGED <<arrVars, mgrVars, extVars>>

NextMesh == DoMakeMesh

SpecMesh == InitMesh /\ [][NextMesh]_vars

\* C5: when MakeMesh returns an error, no buffer generated during the call
\* is still in use.
C5_MakeMeshFailureAtomic ==
  (mcall.op = "MakeMesh" /\ merr # NoError /\ ~IsPanic(merr)) =>
     mmade \cap DOMAIN glBuffers = {}

\* ----------------------------------------------- SpecReg and SpecProg

InitMgr ==
  /\ glBuffers = EmptyMap
  /\ ArrIdle
  /\ MeshIdle
  /\ MgrInit
  /\ ExtIdle

idleVars == <<glBuffers, arrVars, meshVars, extVars>>

NextReg ==
  \/ DoAddMaterial /\ UNCHANGED idleVars
  \/ DoAddMesh /\ UNCHANGED idleVars
  \/ DoAddTexture /\ UNCHANGED idleVars
  \/ DoAddShader /\ UNCHANGED idleVars
  \/ DoAddProgram /\ UNCHANGED idleVars
  \/ DoClean /\ UNCHANGED idleVars

SpecReg == InitMgr /\ [][NextReg]_vars

NextProg ==
  \/ DoLoadShader /\ UNCHANGED idleVars
  \/ DoLoadProgram /\ UNCHANGED idleVars
  \/ DoClean /\ UNCHANGED idleVars

SpecProg == InitMgr /\ [][NextProg]_vars

\* ------------------------------------------- Manager claims under SpecProg

\* C1: when LoadProgram(vfile, ffile, gfile) has succeeded on a Manager and
\* neither that Manager nor one of its ancestors has been cleaned since, the
\* next call with the same three files on that Manager succeeds, returns the
\* handle the earlier call returned, and links nothing. (okProg records, per
\* Manager and file triple, the handle of the last successful call; prevOk is
\* its value when the call in gcall began. That a Programs map holds one
\* program per stage set is the map's own structure.)
C1_ProgramDedup ==
  (gcall.op = "LoadProgram" /\ prevOk # 0) =>
    (gerr = NoError /\ gret = prevOk /\ ~linkedNow)

\* C1 witness: a repeated LoadProgram on the child has returned the program
\* of its earlier call; the program is the child's, its shaders the parent's.
C1_Witness ==
  /\ gcall.op = "LoadProgram"
  /\ gcall.m = 2
  /\ prevOk # 0
  /\ gret = prevOk
  /\ ~linkedNow
  /\ gret \in Range(Programs[2])
  /\ Shaders[2] = EmptyMap /\ Shaders[1] # EmptyMap

\* -------------------------------------------- Manager claims under SpecReg

\* The Managers a lookup of key on m visits that hold key in their own map.
Holders(maps, m, key) == {k \in Chain(m) : key \in DOMAIN maps[k]}

\* The holder nearest to m: the chain descends from m to Manager 1.
Nearest(maps, m, key) ==
  CHOOSE k \in Holders(maps, m, key) : \A j \in Holders(maps, m, key) : j <= k

\* 'got', the result of a Get, is the entry of the nearest holder, and is
\* not-found exactly when the chain has no holder.
Resolves(got, maps, m, key) ==
  IF Holders(maps, m, key) = {} THEN ~got.ok
  ELSE got.ok /\ got.val = maps[Nearest(maps, m, key)][key]

\* C2: Get<Kind> on a Manager returns the Manager's own entry when it has
\* one, else the entry of the nearest ancestor that has one, and not-found
\* only when no Manager of the chain has the key; for all five kinds.
C2_LookupPrefersLocal ==
  \A m \in Managers :
    /\ \A name \in ObjNames :
         /\ Resolves(GetMaterial(Materials, m, name), Materials, m, name)
         /\ Resolves(GetMesh(Meshes, m, name), Meshes, m, name)
         /\ Resolves(GetTexture(Textures, m, name), Textures, m, name)
    /\ \A name \in ShaderFiles : Resolves(GetShader(Shaders, m, name), Shaders, m, name)
    /\ \A set \in CallerSets : Resolves(GetProgram(Programs, m, set), Programs, m, set)

\* C2 witness: the child has just added its own Material "M" while the
\* parent holds another "M"; each Manager's lookup returns its own instance.
C2_Witness ==
  /\ gcall.op = "AddMaterial" /\ gcall.m = 2 /\ gerr = NoError
  /\ "M" \in DOMAIN Materials[1] /\ "M" \in DOMAIN Materials[2]
  /\ GetMaterial(Materials, 2, "M").val = Materials[2]["M"]
  /\ GetMaterial(Materials, 1, "M").val = Materials[1]["M"]
  /\ Materials[1]["M"] # Materials[2]["M"]

\* The maps of the kind an Add operation registers in.
MapsOf(op) ==
  CASE op = "AddMaterial" -> Materials
    [] op = "AddMesh" -> Meshes
    [] op = "AddShader" -> Shaders
    [] op = "AddProgram" -> Programs
    [] op = "AddTexture" -> Textures

AddOps == {"AddMaterial", "AddMesh", "AddShader", "AddProgram", "AddTexture"}

\* C3: an Add<Kind> fails with AlreadyExists only when the Manager's own map
\* holds the key (a failed Add writes nothing, so the map after the call is
\* the map before it): an Add on a child succeeds when only the parent holds
\* the key.
C3_AddFailsOnlyOnLocalKey ==
  (gcall.op \in AddOps /\ gerr = AlreadyExists) =>
    gcall.key \in DOMAIN MapsOf(gcall.op)[gcall.m]

\* C4: a step that is am.Clean() on Manager m leaves m's five maps empty, has
\* destroyed every resource they held, leaves the maps and the resources of
\* every other Manager as they were, and leaves lookups on m resolving as
\* they resolved on m's parent.
C4_CleanIsLocal ==
  [][gcall'.op = "Clean" =>
       LET m == gcall'.m
           none == [val |-> 0, ok |-> FALSE]
       IN  /\ Materials'[m] = EmptyMap /\ Meshes'[m] = EmptyMap /\ Shaders'[m] = EmptyMap
           /\ Programs'[m] = EmptyMap /\ Textures'[m] = EmptyMap
           /\ \A o \in Range(Materials[m]) : matProg'[o] = 0
           /\ Range(Meshes[m]) \cap meshLive' = {}
           /\ Range(Textures[m]) \cap texLive' = {}
           /\ Range(Shaders[m]) \cap DOMAIN glShaders' = {}
           /\ Range(Programs[m]) \cap glPrograms' = {}
           /\ \A k \in Managers \ {m} :
                /\ Materials'[k] = Materials[k] /\ Meshes'[k] = Meshes[k]
                /\ Shaders'[k] = Shaders[k] /\ Programs'[k] = Programs[k]
                /\ Textures'[k] = Textures[k]
                /\ \A o \in Range(Materials[k]) : matProg'[o] = matProg[o]
                /\ Range(Meshes[k]) \cap meshLive \subseteq meshLive'
                /\ Range(Textures[k]) \cap texLive \subseteq texLive'
                /\ \A h \in Range(Shaders[k]) \cap DOMAIN glShaders :
                     h \in DOMAIN glShaders' /\ glShaders'[h] = glShaders[h]
                /\ Range(Programs[k]) \cap glPrograms \subseteq glPrograms'
           /\ \A name \in ObjNames :
                /\ GetMaterial(Materials', m, name) =
                     IF Parent(m) = 0 THEN none ELSE GetMaterial(Materials, Parent(m), name)
                /\ GetMesh(Meshes', m, name) =
                     IF Parent(m) = 0 THEN none ELSE GetMesh(Meshes, Parent(m), name)
                /\ GetTexture(Textures', m, name) =
                     IF Parent(m) = 0 THEN none ELSE GetTexture(Textures, Parent(m), name)
           /\ \A name \in ShaderFiles :
                GetShader(Shaders', m, name) =
                  IF Parent(m) = 0 THEN none ELSE GetShader(Shaders, Parent(m), name)
           /\ \A set \in CallerSets :
                GetProgram(Programs', m, set) =
                  IF Parent(m) = 0 THEN none ELSE GetProgram(Programs, Parent(m), set)
    ]_vars

\* C4 witness: the child has just been cleaned; the name below the parent's
\* shader is free again (names are handed out lowest first, so the child's
\* shader had it and Clean deleted it), and the parent still holds its shader.
C4_Witness ==
  /\ gcall.op = "Clean" /\ gcall.m = 2
  /\ Shaders[2] = EmptyMap
  /\ \E name \in DOMAIN Shaders[1] :
       /\ Shaders[1][name] \in DOMAIN glShaders
       /\ \E j \in Handles : j < Shaders[1][name] /\ j \notin DOMAIN glShaders \cup glPrograms

\* ---------------------------------- SpecClean: the arrays and their Clean

\* The most Clean calls made on one array.
MaxCleans == 3

\* AttribArray.Clean without 'arr.Buf = 0'.
AttribArrayCleanKeepsBuf(a, bufs) ==
  IF a.nil THEN [arr |-> a, bufs |-> bufs, passed |-> <<>>]
  ELSE [arr |-> a, bufs |-> DeleteBuffer(bufs, a.Buf), passed |-> <<a.Buf>>]

\* arr.Clean() of an AttribArray: the array and the buffers after, and the
\* names passed to gl.DeleteBuffers (none on a nil receiver).
AttribArrayClean(a, bufs) ==
  IF a.nil THEN [arr |-> a, bufs |-> bufs, passed |-> <<>>]
  ELSE [arr |-> [a EXCEPT !.Buf = 0], bufs |-> DeleteBuffer(bufs, a.Buf), passed |-> <<a.Buf>>]

\* arr.Clean() of an ElementArray.
ElementArrayClean(e, bufs) ==
  IF e.nil THEN [arr |-> e, bufs |-> bufs, passed |-> <<>>]
  ELSE [arr |-> [e EXCEPT !.Buf = 0], bufs |-> DeleteBuffer(bufs, e.Buf), passed |-> <<e.Buf>>]

\* The names of 'passed' that are not 0 (gl.DeleteBuffers ignores 0).
NonZero(passed) == SelectSeq(passed, LAMBDA b : b # 0)

\* A caller creates the element array.
DoNewElementArray ==
  /\ elem.nil
  /\ ~IsPanic(aerr)
  /\ \E data \in ElemData :
       \E r \in {NewElementArray(data, glBuffers)} :
         /\ elem' = r.arr
         /\ glBuffers' = r.bufs
         /\ aerr' = r.err
         /\ acall' = [op |-> "NewElement", dims |-> 0, data |-> [kind |-> data.kind, n |-> data.n]]
         /\ UNCHANGED <<arr, arr0, deleted, cleans, meshVars, mgrVars, laterVars>>

\* A caller cleans the AttribArray it holds, or the nil one a failed
\* NewAttribArray returned.
DoAttribClean ==
  /\ ~IsPanic(aerr)
  /\ cleans["attrib"] < MaxCleans
  /\ \E r \in {AttribArrayClean(arr, glBuffers)} :
       /\ arr' = r.arr
       /\ glBuffers' = r.bufs
       /\ deleted' = [deleted EXCEPT !["attrib"] = @ \o NonZero(r.passed)]
       /\ cleans' = [cleans EXCEPT !["attrib"] = @ + 1]
       /\ aerr' = NoError
       /\ acall' = [op |-> "Clean", dims |-> 0, data |-> [kind |-> "uint8", n |-> 0]]
       /\ UNCHANGED <<arr0, elem, meshVars, mgrVars, laterVars>>

\* A caller cleans the ElementArray it holds, or a nil one.
DoElemClean ==
  /\ ~IsPanic(aerr)
  /\ cleans["element"] < MaxCleans
  /\ \E r \in {ElementArrayClean(elem, glBuffers)} :
       /\ elem' = r.arr
       /\ glBuffers' = r.bufs
       /\ deleted' = [deleted EXCEPT !["element"] = @ \o NonZero(r.passed)]
       /\ cleans' = [cleans EXCEPT !["element"] = @ + 1]
       /\ aerr' = NoError
       /\ acall' = [op |-> "CleanElement", dims |-> 0, data |-> [kind |-> "uint8", n |-> 0]]
       /\ UNCHANGED <<arr, arr0, meshVars, mgrVars, laterVars>>

NextClean == DoNewAttribArray \/ DoNewElementArray \/ DoAttribClean \/ DoElemClean

SpecClean == InitArr /\ [][NextClean]_vars

\* A sequence with no element twice.
NoRepeat(q) == \A i, j \in 1..Len(q) : i # j => q[i] # q[j]

\* C11: whatever Clean calls are made on an AttribArray or an ElementArray
\* (nil ones included), none fails, no non-zero buffer name is passed to
\* gl.DeleteBuffers twice by the same array, and once an array has passed its
\* name its Buf is 0.
C11_CleanIdempotent ==
  /\ NoRepeat(deleted["attrib"]) /\ NoRepeat(deleted["element"])
  /\ deleted["attrib"] # <<>> => arr.Buf = 0
  /\ deleted["element"] # <<>> => elem.Buf = 0
  /\ acall.op \in {"Clean", "CleanElement"} => aerr = NoError

\* C11 witness: the AttribArray has been cleaned twice and passed its name
\* once; a nil ElementArray has been cleaned.
C11_Witness ==
  /\ ~arr.nil /\ cleans["attrib"] >= 2
  /\ Len(deleted["attrib"]) = 1 /\ arr0.Buf = deleted["attrib"][1]
  /\ arr.Buf = 0
  /\ elem.nil /\ cleans["element"] >= 1

\* ----------------------------------------- SpecAdd: a Mesh and AddArrays

\* The most arrays handed to one AddArrays call.
MaxArgs == 2

\* The vertex counts of the channels handed to AddArrays.
VertCounts == {3, 4}

\* The channels: a nil *AttribArray, or an array of float32 with the name and
\* dimensions MakeMesh gives the channel, holding v vertices in buffer b.
Channels ==
  {NilArr} \cup
  {[nil |-> FALSE, Name |-> c[1], Dims |-> c[2], Type |-> "FLOAT", Buf |-> c[3],
    Len |-> v * c[2], Cap |-> v * c[2]] :
     c \in {<<"pos", 2, 1>>, <<"color", 4, 2>>, <<"normal", 3, 3>>}, v \in VertCounts}

\* The argument lists of AddArrays: up to n channels.
RECURSIVE ChanSeqs(_)
ChanSeqs(n) ==
  IF n = 0 THEN {<<>>}
  ELSE ChanSeqs(n - 1) \cup
       {Append(q, c) : q \in {x \in ChanSeqs(n - 1) : Len(x) = n - 1}, c \in Channels}

\* A caller makes the Mesh.
DoNewMesh ==
  /\ mesh.nil
  /\ mesh' = NewMesh("m")
  /\ merr' = NoError
  /\ mcall' = [op |-> "NewMesh", arrays |-> <<>>]
  /\ UNCHANGED <<glBuffers, mmade, arrVars, mgrVars, extVars>>

\* A caller adds arrays to the Mesh.
DoAddArrays ==
  /\ ~mesh.nil
  /\ \E arrays \in ChanSeqs(MaxArgs) :
       \E r \in {AddArrays(mesh, arrays)} :
         /\ mesh' = r.mesh
         /\ merr' = r.err
         /\ mcall' = [op |-> "AddArrays", arrays |-> arrays]
         /\ UNCHANGED <<glBuffers, mmade, arrVars, mgrVars, extVars>>

NextAdd == DoNewMesh \/ DoAddArrays

SpecAdd == InitMesh /\ [][NextAdd]_vars

InconsistentVertexCount == "AttribArray sizes are inconsistent"

\* The arrays of an argument list that are not nil.
NonNil(arrays) == SelectSeq(arrays, LAMBDA a : ~a.nil)

\* The positions in nn of the arrays whose Attribs() is not v.
Differing(nn, v) == {i \in 1..Len(nn) : Attribs(nn[i]) # v}

\* The least element of a non-empty set of numbers.
Least(S) == CHOOSE i \in S : \A j \in S : i <= j

\* C12: in an AddArrays step, Vertices becomes the Attribs() of the first
\* non-nil array if it was -1 and else stays; the call succeeds exactly when
\* every non-nil array has that many attributes, and then every one of them
\* is registered under its name; otherwise it fails with the inconsistent-
\* sizes error at the first array that differs, which is not registered,
\* nor is any array after it.
C12_AddArraysCountCheck ==
  [][mcall'.op = "AddArrays" =>
       LET nn  == NonNil(mcall'.arrays)
           v   == IF mesh.Vertices # -1 THEN mesh.Vertices
                  ELSE IF nn = <<>> THEN -1 ELSE Attribs(nn[1])
           bad == Differing(nn, v)
       IN  /\ mesh'.Vertices = v
           /\ (merr' = NoError) <=> (bad = {})
           /\ bad = {} =>
                /\ \A i \in 1..Len(nn) : nn[i].Name \in DOMAIN mesh'.Attribs
                /\ \A n \in DOMAIN mesh'.Attribs :
                     \/ \E i \in 1..Len(nn) : mesh'.Attribs[n] = nn[i]
                     \/ n \in DOMAIN mesh.Attribs /\ mesh'.Attribs[n] = mesh.Attribs[n]
           /\ bad # {} =>
                /\ merr' = InconsistentVertexCount
                /\ \A n \in DOMAIN mesh'.Attribs :
                     \/ \E i \in 1..(Least(bad) - 1) : mesh'.Attribs[n] = nn[i]
                     \/ n \in DOMAIN mesh.Attribs /\ mesh'.Attribs[n] = mesh.Attribs[n]
                /\ \A n \in DOMAIN mesh'.Attribs : Attribs(mesh'.Attribs[n]) = v
    ]_vars

\* C12 witness: with "pos" and "color" of 4 vertices registered, an
\* AddArrays of a "normal" of 3 vertices has failed; Vertices is 4 and no
\* "normal" is registered.
C12_Witness ==
  /\ mcall.op = "AddArrays"
  /\ merr = InconsistentVertexCount
  /\ Len(mcall.arrays) = 1 /\ mcall.arrays[1].Name = "normal" /\ Attribs(mcall.arrays[1]) = 3
  /\ mesh.Vertices = 4
  /\ DOMAIN mesh.Attribs = {"pos", "color"}

\* ------------------------------- SpecTexs: Managers loading texture files

\* The texture files.
TexFiles == {"s", "t"}

\* What can happen to a texture file that is read: it is decoded, os.Open
\* fails, or image.Decode fails.
TexOutcomes == {"ok", "nofile", "baddecode"}

\* The errors of os.Open and image.Decode.
TexError(outcome) ==
  IF outcome = "nofile" THEN "open: no such file or directory" ELSE "image: unknown format"

\* The *Texture objects: as many as names can be registered.
TexObjs == 1..(NumManagers * Cardinality(TexFiles))

\* NewTextureFromImage(name, img) of a decoded image: a Texture no Manager
\* holds. LoadImage at level 0 is given the image the size was taken from.
NewTextureFromFile(texs) ==
  CHOOSE o \in TexObjs \ Registered(texs) : \A k \in TexObjs \ Registered(texs) : o <= k

\* am.LoadTexture(name): the texture and the error returned, the Textures
\* maps and the live textures after the call, and whether the file was opened.
LoadTexture(texs, live, m, name, outcome) ==
  LET got == GetTexture(texs, m, name)
  IN  IF got.ok
      THEN [tex |-> got.val, err |-> NoError, maps |-> texs, live |-> live, opened |-> FALSE]
      ELSE IF outcome # "ok"
      THEN [tex |-> 0, err |-> TexError(outcome), maps |-> texs, live |-> live,
            opened |-> TRUE]
      ELSE LET tex == NewTextureFromFile(texs)
           IN  [tex |-> tex, err |-> NoError, maps |-> AddTexture(texs, m, name, tex).maps,
                live |-> live \cup {tex}, opened |-> TRUE]

\* The loop of LoadTextures from names[i] on; list holds textures[1..i-1].
RECURSIVE LoadTexturesFrom(_, _, _, _, _, _, _, _)
LoadTexturesFrom(texs, live, m, names, fo, i, list, ops) ==
  IF i > Len(names)
  THEN [list |-> list, err |-> NoError, maps |-> texs, live |-> live, opened |-> ops]
  ELSE LET r   == LoadTexture(texs, live, m, names[i], fo[names[i]])
           op2 == IF r.opened THEN Append(ops, names[i]) ELSE ops
       IN  IF r.err # NoError
           THEN [list |-> list, err |-> r.err, maps |-> r.maps, live |-> r.live,
                 opened |-> op2]
           ELSE LoadTexturesFrom(r.maps, r.live, m, names, fo, i + 1,
                                 Append(list, r.tex), op2)

\* LoadTextures returning the textures loaded before the failing name.
LoadTexturesKeepsPrefix(texs, live, m, names, fo) ==
  LET r == LoadTexturesFrom(texs, live, m, names, fo, 1, <<>>, <<>>)
  IN  [ret |-> [nil |-> FALSE, list |-> r.list], err |-> r.err, maps |-> r.maps,
       live |-> r.live, opened |-> r.opened]

\* LoadTextures undoing, when a name fails, the registrations it made before
\* that name.
LoadTexturesAtomic(texs, live, m, names, fo) ==
  LET r == LoadTexturesFrom(texs, live, m, names, fo, 1, <<>>, <<>>)
  IN  IF r.err # NoError
      THEN [ret |-> [nil |-> TRUE, list |-> <<>>], err |-> r.err, maps |-> texs,
            live |-> live, opened |-> r.opened]
      ELSE [ret |-> [nil |-> FALSE, list |-> r.list], err |-> r.err, maps |-> r.maps,
            live |-> r.live, opened |-> r.opened]

\* am.LoadTextures(names...): the slice returned (nil: the nil slice), the
\* error, the Textures maps and live textures after the call, and the files
\* opened.
LoadTextures(texs, live, m, names, fo) ==
  LET r == LoadTexturesFrom(texs, live, m, names, fo, 1, <<>>, <<>>)
  IN  [ret |-> IF r.err # NoError THEN [nil |-> TRUE, list |-> <<>>]
               ELSE [nil |-> FALSE, list |-> r.list],
       err |-> r.err, maps |-> r.maps, live |-> r.live, opened |-> r.opened]

\* The most names handed to one LoadTextures call.
MaxNames == 2

\* The argument lists of LoadTextures.
RECURSIVE NameSeqs(_)
NameSeqs(n) ==
  IF n = 0 THEN {<<>>}
  ELSE NameSeqs(n - 1) \cup
       {Append(q, f) : q \in {x \in NameSeqs(n - 1) : Len(x) = n - 1}, f \in TexFiles}

\* What can happen to each texture file in a LoadTextures call on Manager m:
\* nothing to a file the call does not name or finds registered.
TexFileOutcomes(m, names) ==
  {fo \in [TexFiles -> TexOutcomes] :
     \A f \in TexFiles :
        ((\A i \in 1..Len(names) : names[i] # f) \/ GetTexture(Textures, m, f).ok)
           => fo[f] = "ok"}

notTexs == <<glBuffers, arrVars, meshVars, cleanVars, texVars, matVars, initVars, updVars>>

\* am.LoadTextures(names...)
DoLoadTextures ==
  \E m \in Managers, names \in NameSeqs(MaxNames) :
    \E fo \in TexFileOutcomes(m, names) :
      \E r \in {LoadTextures(Textures, texLive, m, names, fo)} :
        /\ Textures' = r.maps
        /\ texLive' = r.live
        /\ tret' = r.ret
        /\ opened' = r.opened
        /\ gerr' = r.err
        /\ gcall' = [op |-> "LoadTextures", m |-> m, key |-> names, val |-> fo]
        /\ UNCHANGED <<Materials, Meshes, Shaders, Programs, matProg, meshLive,
                       glShaders, glPrograms, otherMgrVars, notTexs>>

NextTexs ==
  \/ DoLoadTextures
  \/ DoClean /\ UNCHANGED idleVars

SpecTexs == InitMgr /\ [][NextTexs]_vars

\* The positions in names of the files that fail to load.
FailingNames(names, fo) == {i \in 1..Len(names) : fo[names[i]] # "ok"}

\* C13: after a LoadTextures call in which some name fails to load, the call
\* has returned the nil slice and the error of the first failing name, and
\* has opened no file after that name's; after one in which every name
\* loads, it has returned no error and a slice with, for each name in
\* argument order, the texture the Manager resolves the name to.
C13_LoadTexturesResult ==
  gcall.op = "LoadTextures" =>
    LET names == gcall.key
        bad   == FailingNames(names, gcall.val)
    IN  IF bad # {}
        THEN LET f == Least(bad)
             IN  /\ tret.nil /\ tret.list = <<>>
                 /\ gerr = TexError(gcall.val[names[f]])
                 /\ opened # <<>> /\ opened[Len(opened)] = names[f]
                 /\ \A k \in 1..Len(opened) : \E i \in 1..f : opened[k] = names[i]
                 /\ ~GetTexture(Textures, gcall.m, names[f]).ok
        ELSE /\ gerr = NoError
             /\ ~tret.nil
             /\ Len(tret.list) = Len(names)
             /\ \A i \in 1..Len(names) :
                  /\ GetTexture(Textures, gcall.m, names[i]).ok
                  /\ tret.list[i] = GetTexture(Textures, gcall.m, names[i]).val
                  /\ tret.list[i] \in texLive

\* C13 witness: a LoadTextures of two names has loaded the first and failed
\* on the second.
C13_Witness ==
  /\ gcall.op = "LoadTextures"
  /\ Len(gcall.key) = 2
  /\ gcall.key[1] # gcall.key[2]
  /\ gerr # NoError
  /\ opened = gcall.key
  /\ tret.nil
  /\ GetTexture(Textures, gcall.m, gcall.key[1]).ok

\* The names before position f that the call had to load: those no Manager of
\* the chain of m had registered when the call was made.
LoadedBefore(texs, m, names, f) ==
  {names[i] : i \in {j \in 1..(f - 1) : ~GetTexture(texs, m, names[j]).ok}}

\* C27: a LoadTextures call that fails returns the nil slice and undoes
\* nothing: every name it loaded before the failing one is registered in the
\* local Textures map of the Manager with a texture created by the call and
\* not destroyed, a later LoadTexture of the name returns that texture
\* without opening the file, and every entry and live texture there was
\* before the call is still there.
C27_FailedLoadKeepsLoaded ==
  [][(gcall'.op = "LoadTextures" /\ gerr' # NoError
        /\ FailingNames(gcall'.key, gcall'.val) # {}) =>
       LET names == gcall'.key
           m     == gcall'.m
           f     == Least(FailingNames(names, gcall'.val))
       IN  /\ tret'.nil
           /\ \A x \in LoadedBefore(Textures, m, names, f) :
                /\ x \in DOMAIN Textures'[m]
                /\ Textures'[m][x] \in texLive' \ texLive
                /\ \A outcome \in TexOutcomes :
                     \E r \in {LoadTexture(Textures', texLive', m, x, outcome)} :
                       r.tex = Textures'[m][x] /\ ~r.opened /\ r.err = NoError
           /\ texLive \subseteq texLive'
           /\ \A k \in Managers : \A x \in DOMAIN Textures[k] :
                x \in DOMAIN Textures'[k] /\ Textures'[k][x] = Textures[k][x]
           /\ \A k \in Managers :
                DOMAIN Textures'[k] =
                  DOMAIN Textures[k] \cup
                    (IF k = m THEN LoadedBefore(Textures, m, names, f) ELSE {})
    ]_vars

\* C27 witness: a LoadTextures of two different names has failed on the
\* second after opening both files; the first is in the Manager's own map
\* with a live texture, and the slice returned is nil.
C27_Witness ==
  /\ gcall.op = "LoadTextures"
  /\ gerr # NoError
  /\ Len(gcall.key) = 2 /\ gcall.key[1] # gcall.key[2]
  /\ opened = gcall.key
  /\ gcall.key[1] \in DOMAIN Textures[gcall.m]
  /\ Textures[gcall.m][gcall.key[1]] \in texLive
  /\ gcall.key[2] \notin DOMAIN Textures[gcall.m]
  /\ tret.nil

\* --------------------------------------------- SpecTexture: one Texture

\* The largest width and height of a texture or an image.
MaxW == 2

\* The largest mip level of a call.
MaxLevel == 1

Levels == 0..MaxLevel

\* A nil *Texture.
NilTexture == [nil |-> TRUE, Tex |-> 0, Buf |-> 0, W |-> 0, H |-> 0]

\* No row written and no upload issued.
NoUpload == [rows |-> <<>>, gl |-> <<>>]

SizeMismatch == "asset.Texture.LoadImage error: invalid image size"

OutOfBounds == "asset.Texture.LoadSubImage error: image out of bounds"

MapFailed == "Assets.Texture.LoadSubRGBA error: could not map buffer"

\* The run-time panics of an index or a slice bound out of range.
IndexPanic == "panic: runtime error: index out of range"

SlicePanic == "panic: runtime error: slice bounds out of range"

IsTexPanic(e) == e \in {IndexPanic, SlicePanic}

\* gl.GenTextures(1, &tex): an unused texture name, the lowest one.
GenTexture(texs) == CHOOSE n \in BufNames \ DOMAIN texs :
                      \A c \in BufNames \ DOMAIN texs : n <= c

\* NewTexture(name, w, h): the Texture, and the texture and buffer objects
\* after it. No level of the texture has an image, and the buffer no store.
NewTexture(w, h, texs, bufs) ==
  LET tx == GenTexture(texs)
      b  == GenBuffer(bufs)
  IN  [t    |-> [nil |-> FALSE, Tex |-> tx, Buf |-> b, W |-> w, H |-> h],
       texs |-> [x \in DOMAIN texs \cup {tx} |->
                   IF x = tx THEN [l \in Levels |-> <<0, 0>>] ELSE texs[x]],
       bufs |-> BufferData(bufs, b, 0)]

\* n >> uint(level), for level >= 0
Shr(n, level) == n \div (2 ^ level)

\* t.LoadRGBA(img, level), img an RGBA image of img[1] x img[2] pixels:
\* &img.Pix[0] panics when the image has no pixel.
LoadRGBA(t, img, level, texs, bufs) ==
  IF img[1] * img[2] = 0
  THEN [err |-> IndexPanic, texs |-> texs, bufs |-> bufs, upl |-> NoUpload]
  ELSE [err  |-> NoError,
        texs |-> [texs EXCEPT ![t.Tex][level] = img],
        bufs |-> BufferData(bufs, t.Buf, 4 * img[1] * img[2]),
        upl  |-> [rows |-> <<>>,
                  gl   |-> <<[op |-> "TexImage2D", level |-> level, x |-> 0, y |-> 0,
                              w |-> img[1], h |-> img[2]]>>]]

\* t.LoadImage(img, level)
LoadImage(t, img, level, texs, bufs) ==
  IF img[1] # Shr(t.W, level) \/ img[2] # Shr(t.H, level)
  THEN [err |-> SizeMismatch, texs |-> texs, bufs |-> bufs, upl |-> NoUpload]
  ELSE LoadRGBA(t, img, level, texs, bufs)

\* t.Clean(): the texture and buffer objects after it.
TextureClean(t, texs, bufs) ==
  [texs |-> [x \in DOMAIN texs \ {t.Tex} |-> texs[x]], bufs |-> DeleteBuffer(bufs, t.Buf)]

\* NewTextureFromImage(name, img): a panic of LoadImage leaves the function
\* with nothing returned and nothing cleaned.
NewTextureFromImage(img, texs, bufs) ==
  LET n == NewTexture(img[1], img[2], texs, bufs)
      r == LoadImage(n.t, img, 0, n.texs, n.bufs)
      c == TextureClean(n.t, r.texs, r.bufs)
  IN  IF IsTexPanic(r.err)
      THEN [t |-> NilTexture, err |-> r.err, texs |-> r.texs, bufs |-> r.bufs, upl |-> r.upl]
      ELSE IF r.err # NoError
      THEN [t |-> NilTexture, err |-> r.err, texs |-> c.texs, bufs |-> c.bufs, upl |-> r.upl]
      ELSE [t |-> n.t, err |-> NoError, texs |-> r.texs, bufs |-> r.bufs, upl |-> r.upl]

\* The index in the mapped buffer at which LoadSubRGBA writes row y.
RowStart(t, off, y) == (y + off[2]) * t.W * 4 + off[1] * 4

Min(a, b) == IF a < b THEN a ELSE b

\* The rows LoadSubRGBA's loop writes for y = 0 .. n-1: the index each
\* starts at and the bytes copy() moves.
RowsWritten(t, img, off, n) ==
  [k \in 1..n |-> [at |-> RowStart(t, off, k - 1),
                   n  |-> Min(img[1] * 4, t.W * t.H * 4 - RowStart(t, off, k - 1))]]

\* t.LoadSubRGBA(img, offset, level); mapok: gl.MapBuffer returns a pointer.
\* pbuf[i:] panics when i is negative or beyond the buffer's length.
LoadSubRGBA(t, img, off, level, mapok, texs, bufs) ==
  LET ln   == t.W * t.H * 4
      bufs1 == BufferData(bufs, t.Buf, ln)
      bad  == {y \in 0..(img[2] - 1) : RowStart(t, off, y) < 0 \/ RowStart(t, off, y) > ln}
  IN  IF ~mapok
      THEN [err |-> MapFailed, texs |-> texs, bufs |-> bufs1, upl |-> NoUpload]
      ELSE IF bad # {}
      THEN [err |-> SlicePanic, texs |-> texs, bufs |-> bufs1,
            upl |-> [rows |-> RowsWritten(t, img, off, Least(bad)), gl |-> <<>>]]
      ELSE [err |-> NoError, texs |-> texs, bufs |-> bufs1,
            upl |-> [rows |-> RowsWritten(t, img, off, img[2]),
                     gl   |-> <<[op |-> "TexSubImage2D", level |-> level, x |-> 0, y |-> 0,
                                 w |-> img[1], h |-> img[2]]>>]]

\* t.LoadSubImage(img, offset, level)
LoadSubImage(t, img, off, level, mapok, texs, bufs) ==
  IF img[1] + off[1] > t.W \/ img[2] + off[2] > t.H
  THEN [err |-> OutOfBounds, texs |-> texs, bufs |-> bufs, upl |-> NoUpload]
  ELSE LoadSubRGBA(t, img, off, level, mapok, texs, bufs)

\* The image sizes and the offsets of the calls.
ImgSizes == (0..MaxW) \X (0..MaxW)

Offsets == (-1..MaxW) \X (-1..MaxW)

TexCall(op, img, off, level) == [op |-> op, img |-> img, off |-> off, level |-> level]

notTexture == <<arrVars, meshVars, mgrVars, cleanVars, texsVars, matVars, initVars, updVars>>

\* NewTexture(name, w, h)
DoNewTexture ==
  /\ texture.nil /\ ~IsTexPanic(terr)
  /\ \E w \in 1..MaxW, h \in 1..MaxW :
       \E r \in {NewTexture(w, h, glTextures, glBuffers)} :
         /\ texture' = r.t
         /\ glTextures' = r.texs
         /\ glBuffers' = r.bufs
         /\ terr' = NoError
         /\ upl' = NoUpload
         /\ tcall' = TexCall("NewTexture", <<w, h>>, <<0, 0>>, 0)
         /\ UNCHANGED notTexture

\* NewTextureFromImage(name, img)
DoNewTextureFromImage ==
  /\ texture.nil /\ ~IsTexPanic(terr)
  /\ \E img \in ImgSizes :
       \E r \in {NewTextureFromImage(img, glTextures, glBuffers)} :
         /\ texture' = r.t
         /\ glTextures' = r.texs
         /\ glBuffers' = r.bufs
         /\ terr' = r.err
         /\ upl' = r.upl
         /\ tcall' = TexCall("NewTextureFromImage", img, <<0, 0>>, 0)
         /\ UNCHANGED notTexture

\* t.LoadImage(img, level)
DoLoadImage ==
  /\ ~texture.nil /\ ~IsTexPanic(terr)
  /\ \E img \in ImgSizes, level \in Levels :
       \E r \in {LoadImage(texture, img, level, glTextures, glBuffers)} :
         /\ glTextures' = r.texs
         /\ glBuffers' = r.bufs
         /\ terr' = r.err
         /\ upl' = r.upl
         /\ tcall' = TexCall("LoadImage", img, <<0, 0>>, level)
         /\ UNCHANGED <<texture, notTexture>>

\* t.LoadSubImage(img, offset, level)
DoLoadSubImage ==
  /\ ~texture.nil /\ ~IsTexPanic(terr)
  /\ \E img \in ImgSizes, off \in Offsets, level \in Levels, mapok \in BOOLEAN :
       \E r \in {LoadSubImage(texture, img, off, level, mapok, glTextures, glBuffers)} :
         /\ glTextures' = r.texs
         /\ glBuffers' = r.bufs
         /\ terr' = r.err
         /\ upl' = r.upl
         /\ tcall' = TexCall("LoadSubImage", img, off, level)
         /\ UNCHANGED <<texture, notTexture>>

\* t.Clean(), after which the caller drops the Texture.
DoTextureClean ==
  /\ ~texture.nil /\ ~IsTexPanic(terr)
  /\ \E r \in {TextureClean(texture, glTextures, glBuffers)} :
       /\ texture' = NilTexture
       /\ glTextures' = r.texs
       /\ glBuffers' = r.bufs
       /\ terr' = NoError
       /\ upl' = NoUpload
       /\ tcall' = TexCall("Clean", <<0, 0>>, <<0, 0>>, 0)
       /\ UNCHANGED notTexture

NextTexture ==
  \/ DoNewTexture
  \/ DoNewTextureFromImage
  \/ DoLoadImage
  \/ DoLoadSubImage
  \/ DoTextureClean

SpecTexture == InitArr /\ [][NextTexture]_vars

\* Row k of an upload at offset off has no pixel, or lies within row
\* off[2] + k - 1 of the texture's W x H pixels and is written whole.
RowInTexture(t, img, off, k, row) ==
  LET r == off[2] + k - 1
  IN  \/ img[1] = 0
      \/ /\ r \in 0..(t.H - 1)
         /\ row.n = img[1] * 4
         /\ row.at >= r * t.W * 4
         /\ row.at + row.n <= (r + 1) * t.W * 4

\* C14: after a LoadSubImage call, (1) if the call returned no error, every
\* row it wrote lies within the texture's W x H pixels, (2) if offset plus
\* image size exceeds (W, H) in a component, the call failed with the
\* out-of-bounds error, and (3) an image of (W, H) pixels at offset (0, 0)
\* did not fail with that error.
C14_SubImageWithinBounds ==
  tcall.op = "LoadSubImage" =>
    /\ terr = NoError =>
         /\ Len(upl.rows) = tcall.img[2]
         /\ \A k \in 1..Len(upl.rows) :
              RowInTexture(texture, tcall.img, tcall.off, k, upl.rows[k])
    /\ (tcall.img[1] + tcall.off[1] > texture.W \/ tcall.img[2] + tcall.off[2] > texture.H)
         => terr = OutOfBounds
    /\ (tcall.off = <<0, 0>> /\ tcall.img = <<texture.W, texture.H>>) => terr # OutOfBounds

\* C15: after a LoadImage call at level L, the error is the size-mismatch
\* error if the image's width differs from W >> L or its height from
\* H >> L, and there is no error otherwise; a call that returned an error
\* issued no upload. After a NewTextureFromImage call that did not return a
\* Texture, no texture object and no buffer object is left.
C15_LoadImageSizeCheck ==
  /\ tcall.op = "LoadImage" =>
        LET differs == \/ tcall.img[1] # Shr(texture.W, tcall.level)
                       \/ tcall.img[2] # Shr(texture.H, tcall.level)
        IN  /\ differs => terr = SizeMismatch
            /\ ~differs => terr = NoError
            /\ terr # NoError => upl.gl = <<>>
  /\ (tcall.op = "NewTextureFromImage" /\ terr # NoError) =>
        /\ DOMAIN glTextures = {}
        /\ DOMAIN glBuffers = {}

\* ------------------------------ SpecMat: one Material and its uniforms

\* The most names handed to one InitUniformLocs or DrawUniforms call.
MaxUniforms == 2

\* The uniform names callers use.
UniformNames == {"u", "v", "w"}

\* The shader programs a caller attaches (0: none).
MatProgs == {1, 2}

\* gl.GetUniformLocation(prog, name): program 1 declares u and v, program 2
\* declares v and u at other locations; no program declares w.
GetUniformLocation(prog, name) ==
  CASE prog = 1 /\ name = "u" -> 0
    [] prog = 1 /\ name = "v" -> 1
    [] prog = 2 /\ name = "v" -> 0
    [] prog = 2 /\ name = "u" -> 2
    [] OTHER -> -1

\* A nil *Material.
NilMaterial == [nil |-> TRUE, Name |-> "", Prog |-> 0, UniformLocs |-> EmptyMap]

\* NewMaterial(name)
NewMaterial(name) == [nil |-> FALSE, Name |-> name, Prog |-> 0, UniformLocs |-> EmptyMap]

\* mat.SetProgram(prog)
SetProgram(mat, prog) == [mat EXCEPT !.Prog = prog]

\* mat.Clean()
MaterialClean(mat) == [mat EXCEPT !.Prog = 0]

NoMatError == [kind |-> "nil", mat |-> "", uniform |-> ""]

\* "material '%s' has no shader program from which to get uniform locations"
NoProgram(mat) == [kind |-> "NoProgram", mat |-> mat.Name, uniform |-> ""]

\* "material '%s' has no uniform '%s'"
UnknownUniform(mat, name) == [kind |-> "UnknownUniform", mat |-> mat.Name, uniform |-> name]

UniformPanic == [kind |-> "panic: Mesh.DrawUniforms: unhandled uniform type", mat |-> "",
                 uniform |-> ""]

\* The loop of InitUniformLocs from uniforms[i] on.
RECURSIVE InitUniformLocsFrom(_, _, _)
InitUniformLocsFrom(mat, uniforms, i) ==
  IF i > Len(uniforms) THEN [mat |-> mat, err |-> NoMatError]
  ELSE LET name == uniforms[i]
           loc  == GetUniformLocation(mat.Prog, name)
       IN  IF loc = -1 THEN [mat |-> mat, err |-> UnknownUniform(mat, name)]
           ELSE InitUniformLocsFrom([mat EXCEPT !.UniformLocs = MapPut(@, name, loc)],
                                    uniforms, i + 1)

\* The loop of InitUniformLocs storing every location before it looks at any.
RECURSIVE InitUniformLocsStoreFirst(_, _, _)
InitUniformLocsStoreFirst(mat, uniforms, i) ==
  IF i > Len(uniforms) THEN [mat |-> mat, err |-> NoMatError]
  ELSE LET name == uniforms[i]
           loc  == GetUniformLocation(mat.Prog, name)
           r    == InitUniformLocsStoreFirst(
                     [mat EXCEPT !.UniformLocs = MapPut(@, name, loc)], uniforms, i + 1)
       IN  IF loc = -1 THEN [mat |-> r.mat, err |-> UnknownUniform(mat, name)] ELSE r

\* InitUniformLocs that resolves every name before it fails.
InitUniformLocsResolvesAll(mat, uniforms) ==
  IF mat.Prog = 0 THEN [mat |-> mat, err |-> NoProgram(mat)]
  ELSE InitUniformLocsStoreFirst(mat, uniforms, 1)

\* mat.InitUniformLocs(uniforms...): the Material after the call and the error.
InitUniformLocs(mat, uniforms) ==
  IF mat.Prog = 0 THEN [mat |-> mat, err |-> NoProgram(mat)]
  ELSE InitUniformLocsFrom(mat, uniforms, 1)

\* The types of the values in a Uniforms map: two of the types DrawUniforms
\* handles, and one it does not.
UniformTypes == {"int32", "Vec3", "string"}

\* The gl call DrawUniforms makes for a value of a type it handles.
UniformCall(typ) == IF typ = "int32" THEN "Uniform1i" ELSE "Uniform3fv"

\* The loop of DrawUniforms over the map's entries in the order 'entries'
\* (pairs of name and type of value), after the calls in 'sets'. The
\* location of a name that is not a key of UniformLocs is the zero value.
RECURSIVE DrawUniformsFrom(_, _, _, _)
DrawUniformsFrom(mat, entries, i, sets) ==
  IF i > Len(entries) THEN [sets |-> sets, err |-> NoMatError]
  ELSE LET name == entries[i][1]
           typ  == entries[i][2]
           loc  == IF name \in DOMAIN mat.UniformLocs THEN mat.UniformLocs[name] ELSE 0
       IN  IF loc < 0 THEN DrawUniformsFrom(mat, entries, i + 1, sets)
           ELSE IF typ \notin {"int32", "Vec3"} THEN [sets |-> sets, err |-> UniformPanic]
           ELSE DrawUniformsFrom(mat, entries, i + 1,
                  Append(sets, [name |-> name, loc |-> loc, call |-> UniformCall(typ)]))

\* m.DrawUniforms(material, uniforms), the range over the map visiting its
\* entries in the order 'entries'.
DrawUniforms(mat, entries) == DrawUniformsFrom(mat, entries, 1, <<>>)

\* The argument lists of InitUniformLocs: up to n names.
RECURSIVE UniformSeqs(_)
UniformSeqs(n) ==
  IF n = 0 THEN {<<>>}
  ELSE UniformSeqs(n - 1) \cup
       {Append(q, f) : q \in {x \in UniformSeqs(n - 1) : Len(x) = n - 1}, f \in UniformNames}

\* The Uniforms maps of up to n entries, each in every order a range can
\* visit it in.
RECURSIVE UniformMaps(_)
UniformMaps(n) ==
  IF n = 0 THEN {<<>>}
  ELSE UniformMaps(n - 1) \cup
       {Append(q, <<f, t>>) :
          q \in {x \in UniformMaps(n - 1) : Len(x) = n - 1},
          f \in UniformNames, t \in UniformTypes}

\* The names of the entries are the keys of a map: no two are the same.
DistinctKeys(entries) ==
  \A i, j \in 1..Len(entries) : i # j => entries[i][1] # entries[j][1]

MatCall(op, prog, names, uniforms) ==
  [op |-> op, prog |-> prog, names |-> names, uniforms |-> uniforms]

notMat == <<glBuffers, arrVars, meshVars, mgrVars, cleanVars, texsVars, texVars, initVars, updVars>>

IsMatPanic(e) == e = UniformPanic

\* NewMaterial(name)
DoNewMaterial ==
  /\ material.nil
  /\ material' = NewMaterial("mat")
  /\ uerr' = NoMatError
  /\ usets' = <<>>
  /\ ucall' = MatCall("NewMaterial", 0, <<>>, <<>>)
  /\ UNCHANGED notMat

\* mat.SetProgram(prog)
DoSetProgram ==
  /\ ~material.nil /\ ~IsMatPanic(uerr)
  /\ \E prog \in MatProgs :
       /\ material' = SetProgram(material, prog)
       /\ uerr' = NoMatError
       /\ usets' = <<>>
       /\ ucall' = MatCall("SetProgram", prog, <<>>, <<>>)
       /\ UNCHANGED notMat

\* mat.Clean()
DoMaterialClean ==
  /\ ~material.nil /\ ~IsMatPanic(uerr)
  /\ material' = MaterialClean(material)
  /\ uerr' = NoMatError
  /\ usets' = <<>>
  /\ ucall' = MatCall("Clean", 0, <<>>, <<>>)
  /\ UNCHANGED notMat

\* mat.InitUniformLocs(uniforms...)
DoInitUniformLocs ==
  /\ ~material.nil /\ ~IsMatPanic(uerr)
  /\ \E names \in UniformSeqs(MaxUniforms) :
       \E r \in {InitUniformLocs(material, names)} :
         /\ material' = r.mat
         /\ uerr' = r.err
         /\ usets' = <<>>
         /\ ucall' = MatCall("InitUniformLocs", 0, names, <<>>)
         /\ UNCHANGED notMat

\* m.DrawUniforms(material, uniforms)
DoDrawUniforms ==
  /\ ~material.nil /\ ~IsMatPanic(uerr)
  /\ \E entries \in {e \in UniformMaps(MaxUniforms) : DistinctKeys(e)} :
       \E r \in {DrawUniforms(material, entries)} :
         /\ uerr' = r.err
         /\ usets' = r.sets
         /\ ucall' = MatCall("DrawUniforms", 0, <<>>, entries)
         /\ UNCHANGED <<material, notMat>>

NextMat ==
  \/ DoNewMaterial
  \/ DoSetProgram
  \/ DoMaterialClean
  \/ DoInitUniformLocs
  \/ DoDrawUniforms

SpecMat == InitArr /\ [][NextMat]_vars

\* C16: after a DrawUniforms call, every gl.Uniform* call it issued is for a
\* name that is a key of the Material's UniformLocs.
C16_OnlyResolvedUniformsSet ==
  ucall.op = "DrawUniforms" =>
    \A i \in 1..Len(usets) : usets[i].name \in DOMAIN material.UniformLocs

\* The positions in names of the uniforms program prog does not declare.
Undeclared(prog, names) == {i \in 1..Len(names) : GetUniformLocation(prog, names[i]) = -1}

\* The names at positions 1..n of a list.
NamesBefore(names, n) == {names[i] : i \in 1..n}

\* C17: an InitUniformLocs step on a Material without a program fails with
\* the no-program error and leaves UniformLocs as it was. With a program,
\* the step stores the program's location for the names before the first
\* one the program does not declare (for all names when there is none) and
\* keeps the other entries; it fails exactly when there is such a name, with
\* the unknown-uniform error naming the material and that name.
C17_InitUniformLocsStopsAtUnknown ==
  [][ucall'.op = "InitUniformLocs" =>
       LET names == ucall'.names
           bad   == Undeclared(material.Prog, names)
           n     == IF bad = {} THEN Len(names) ELSE Least(bad) - 1
           added == NamesBefore(names, n)
       IN  IF material.Prog = 0
           THEN uerr' = NoProgram(material) /\ material' = material
           ELSE /\ material'.Prog = material.Prog
                /\ DOMAIN material'.UniformLocs = DOMAIN material.UniformLocs \cup added
                /\ \A u \in DOMAIN material'.UniformLocs :
                     material'.UniformLocs[u] =
                       IF u \in added THEN GetUniformLocation(material.Prog, u)
                       ELSE material.UniformLocs[u]
                /\ \A u \in added : GetUniformLocation(material.Prog, u) # -1
                /\ uerr' = IF bad = {} THEN NoMatError
                           ELSE UnknownUniform(material, names[Least(bad)])
    ]_vars

\* C17 witness: InitUniformLocs("u", "w") on a Material with program 1 has
\* failed on "w" and resolved "u".
C17_Witness ==
  /\ ucall.op = "InitUniformLocs"
  /\ ucall.names = <<"u", "w">>
  /\ material.Prog = 1
  /\ uerr = UnknownUniform(material, "w")
  /\ DOMAIN material.UniformLocs = {"u"}

\* ----------------------------- SpecBox: NewBox, NewEqTriangle, Mesh.Clean

\* gl.TRIANGLES
Triangles == 4

\* The slices NewBox hands to MakeMesh: four 2D positions, six indices.
BoxPos == [kind |-> "float32", n |-> 8]

BoxElems == [kind |-> "uint8", n |-> 6, cap |-> 6]

\* NewBox(name, width, height, offset), with the buffers bufs in use
NewBox(name, bufs) ==
  MakeMesh(name, 2, Triangles, BoxPos, NilData, NilData, <<>>, BoxElems, bufs)

\* NewEqTriangle(name, base, offset): three 2D positions, three indices.
NewEqTriangle(name, bufs) ==
  MakeMesh(name, 2, Triangles, [kind |-> "float32", n |-> 6], NilData, NilData, <<>>,
           [kind |-> "uint8", n |-> 3, cap |-> 3], bufs)

\* attr.Clean() of the arrays of m.Attribs under the names 'names': the map
\* and the buffers after.
RECURSIVE CleanAttribs(_, _, _)
CleanAttribs(attribs, names, bufs) ==
  IF names = {} THEN [attribs |-> attribs, bufs |-> bufs]
  ELSE LET n == CHOOSE x \in names : TRUE
           r == AttribArrayClean(attribs[n], bufs)
       IN  CleanAttribs([attribs EXCEPT ![n] = r.arr], names \ {n}, r.bufs)

\* Mesh.Clean that leaves m.Elements alone.
MeshCleanKeepsElements(m, bufs) ==
  LET a == CleanAttribs(m.Attribs, DOMAIN m.Attribs, bufs)
  IN  [mesh |-> [m EXCEPT !.Attribs = a.attribs], bufs |-> a.bufs]

\* m.Clean(): the Mesh and the buffers after. The Mesh was not initialized:
\* m.Array is 0, a name gl.DeleteVertexArrays ignores.
MeshClean(m, bufs) ==
  LET a == CleanAttribs(m.Attribs, DOMAIN m.Attribs, bufs)
      e == ElementArrayClean(m.Elements, a.bufs)
  IN  [mesh |-> [m EXCEPT !.Attribs = a.attribs, !.Elements = e.arr], bufs |-> e.bufs]

BoxCall(op) == [NoMeshCall EXCEPT !.op = op]

\* A caller makes a box.
DoNewBox ==
  /\ mesh.nil /\ mcall.op = "none"
  /\ \E r \in {NewBox("box", glBuffers)} :
       /\ mesh' = r.mesh
       /\ merr' = r.err
       /\ mmade' = r.made
       /\ glBuffers' = r.bufs
       /\ mcall' = BoxCall("NewBox")
       /\ UNCHANGED <<arrVars, mgrVars, extVars>>

\* A caller makes a triangle.
DoNewEqTriangle ==
  /\ mesh.nil /\ mcall.op = "none"
  /\ \E r \in {NewEqTriangle("tri", glBuffers)} :
       /\ mesh' = r.mesh
       /\ merr' = r.err
       /\ mmade' = r.made
       /\ glBuffers' = r.bufs
       /\ mcall' = BoxCall("NewEqTriangle")
       /\ UNCHANGED <<arrVars, mgrVars, extVars>>

\* m.Clean()
DoMeshClean ==
  /\ ~mesh.nil
  /\ \E r \in {MeshClean(mesh, glBuffers)} :
       /\ mesh' = r.mesh
       /\ glBuffers' = r.bufs
       /\ merr' = NoError
       /\ mcall' = BoxCall("Clean")
       /\ UNCHANGED <<mmade, arrVars, mgrVars, extVars>>

\* The caller makes an AttribArray of its own before it makes the mesh.
NextBox ==
  \/ DoNewAttribArray /\ mcall.op = "none"
  \/ DoNewBox
  \/ DoNewEqTriangle
  \/ DoMeshClean

SpecBox == InitMesh /\ [][NextBox]_vars

\* C19: a NewBox call returns, without error, a Mesh of 4 vertices whose
\* only attribute array is "pos" and whose ElementArray has length 6, each
\* with a buffer of its own in use; after Mesh.Clean of that Mesh the Buf of
\* both arrays is 0 and neither buffer made for the Mesh is in use.
C19_BoxShapeAndClean ==
  /\ mcall.op = "NewBox" =>
       /\ merr = NoError /\ ~mesh.nil
       /\ mesh.Vertices = 4
       /\ DOMAIN mesh.Attribs = {"pos"}
       /\ ~mesh.Elements.nil /\ mesh.Elements.Len = 6
       /\ mmade = {mesh.Attribs["pos"].Buf, mesh.Elements.Buf}
       /\ Cardinality(mmade) = 2
       /\ mmade \subseteq DOMAIN glBuffers
  /\ (mcall.op = "Clean" /\ mesh.Name = "box") =>
       /\ DOMAIN mesh.Attribs = {"pos"}
       /\ mesh.Attribs["pos"].Buf = 0
       /\ mesh.Elements.Buf = 0
       /\ Cardinality(mmade) = 2
       /\ mmade \cap DOMAIN glBuffers = {}

\* C19 witness: a box made while another array held buffer 1 has been
\* cleaned; buffers 2 and 3 were the box's, and only buffer 1 is in use.
C19_Witness ==
  /\ mcall.op = "Clean" /\ mesh.Name = "box"
  /\ ~arr.nil
  /\ mmade = {2, 3}
  /\ DOMAIN glBuffers = {1}
  /\ mesh.Vertices = 4 /\ mesh.Elements.Len = 6

\* ------------------------------ SpecProg: failed loads and the shader cache

\* C18: a LoadShader step that returns an error leaves the shader objects as
\* they were, a LoadProgram step that returns an error leaves the program
\* objects as they were, and after a NewTextureFromImage that returned an
\* error no texture or buffer object is left.
C18_FailedLoadLeavesNothing ==
  [][/\ (gcall'.op = "LoadShader" /\ gerr' # NoError) => glShaders' = glShaders
     /\ (gcall'.op = "LoadProgram" /\ gerr' # NoError) => glPrograms' = glPrograms
     /\ (tcall'.op = "NewTextureFromImage" /\ terr' # NoError) =>
          (DOMAIN glTextures' = {} /\ DOMAIN glBuffers' = {})
    ]_vars

\* C20: a LoadShader step for a name that the Manager or an ancestor has
\* registered returns the registered handle and no error, creates no shader
\* object and leaves the Shaders maps as they were. For any other name, the
\* step either returns no error and a shader object created in the step,
\* registered under the name in the Manager's own map and nowhere else, or
\* returns an error and handle 0 and leaves the Shaders maps as they were, so
\* that the name is still not registered.
C20_LoadShaderCache ==
  [][gcall'.op = "LoadShader" =>
       LET m    == gcall'.m
           name == gcall'.key
           got  == GetShader(Shaders, m, name)
       IN  IF got.ok
           THEN /\ gret' = got.val /\ gerr' = NoError
                /\ glShaders' = glShaders
                /\ Shaders' = Shaders
           ELSE IF gerr' = NoError
           THEN /\ gret' \in DOMAIN glShaders' \ DOMAIN glShaders
                /\ DOMAIN glShaders' = DOMAIN glShaders \cup {gret'}
                /\ Shaders' = [Shaders EXCEPT ![m] = MapPut(@, name, gret')]
           ELSE /\ gret' = 0
                /\ Shaders' = Shaders
                /\ ~GetShader(Shaders', m, name).ok
    ]_vars

\* C20 witness: LoadShader of "a" has compiled and registered shader 2;
\* shader 1, a vertex shader no Manager holds, is what an earlier LoadShader of
\* "a" left when its compilation failed.
C20_Witness ==
  /\ gcall.op = "LoadShader" /\ gcall.key = "a"
  /\ gerr = NoError /\ gret = 2
  /\ "a" \in DOMAIN Shaders[gcall.m] /\ Shaders[gcall.m]["a"] = 2
  /\ 1 \in DOMAIN glShaders /\ glShaders[1] = StageOf("a")
  /\ 1 \notin Registered(Shaders)

\* ------------------------------------- SpecMesh: the channels of the Mesh

\* The names of the channels of the inputs handed to MakeMesh.
SuppliedChannels(call) ==
  {"pos"} \cup (IF call.cols.kind # "nil" THEN {"color"} ELSE {})
          \cup (IF call.nrms.kind # "nil" THEN {"normal"} ELSE {})
          \cup {TexName(i - 1) : i \in 1..Len(call.texcoords)}

\* The buffers of the arrays a Mesh holds.
OwnedBuffers(m) ==
  {m.Attribs[n].Buf : n \in DOMAIN m.Attribs} \cup (IF m.Elements.nil THEN {} ELSE {m.Elements.Buf})

\* C21: after a MakeMesh call that returned no error, the Mesh holds exactly
\* one channel for every input supplied ("pos", "color" if cols is not nil,
\* "normal" if nrms is not nil, "texcoord<i>" for every texcoord), and the
\* buffers generated during the call are the buffers of the Mesh's arrays.
C21_MeshHoldsEverySuppliedChannel ==
  (mcall.op = "MakeMesh" /\ merr = NoError) =>
    /\ DOMAIN mesh.Attribs = SuppliedChannels(mcall)
    /\ mmade = OwnedBuffers(mesh)

\* ------------------- SpecHeld: a Mesh, the arrays it holds, and Mesh.Init

\* The names a caller gives its arrays, with the dims of each: one of the
\* names attribMap lists, and one it does not.
HeldNames == {"pos", "tangent"}

HeldDims(name) == IF name = "pos" THEN 2 ELSE 3

\* The vertex counts of the arrays a caller makes.
HeldCounts == {1, 2}

\* The most buffers the caller of this part has in use at a time.
MaxHeldBufs == 3

\* The arrays among the arguments args that are to be made.
RECURSIVE ToMake(_)
ToMake(args) ==
  IF args = <<>> THEN 0
  ELSE (IF Head(args)[1] = "nil" THEN 0 ELSE 1) + ToMake(Tail(args))

\* attribMap[name], the zero value for a name that is not a key
AttribSlot(name) ==
  CASE name = "pos" -> 0
    [] name = "color" -> 1
    [] name = "normal" -> 2
    [] name = "texcoord0" -> 3
    [] name = "texcoord1" -> 4
    [] name = "texcoord2" -> 5
    [] OTHER -> 0

\* The keys of attribMap.
AttribMapKeys == {"pos", "color", "normal", "texcoord0", "texcoord1", "texcoord2"}

\* What a caller hands to one AddArrays call: up to n of nil or an array it
\* makes, named by the name and vertex count.
RECURSIVE HeldArgs(_)
HeldArgs(n) ==
  IF n = 0 THEN {<<>>}
  ELSE HeldArgs(n - 1) \cup
       {Append(q, c) : q \in {x \in HeldArgs(n - 1) : Len(x) = n - 1},
                       c \in {<<"nil", 0>>} \cup (HeldNames \X HeldCounts)}

\* The arrays NewAttribArray returns for the arguments args, made in order
\* with the buffers bufs in use, and the buffers after.
RECURSIVE MakeArrays(_, _)
MakeArrays(args, bufs) ==
  IF args = <<>> THEN [arrays |-> <<>>, bufs |-> bufs]
  ELSE LET c == Head(args)
           r == IF c[1] = "nil" THEN [arr |-> NilArr, bufs |-> bufs]
                ELSE NewAttribArray(c[1], HeldDims(c[1]),
                                    [kind |-> "float32", n |-> c[2] * HeldDims(c[1])], bufs)
           t == MakeArrays(Tail(args), r.bufs)
       IN  [arrays |-> <<r.arr>> \o t.arrays, bufs |-> t.bufs]

\* gl.GenVertexArrays(1, &m.Array): an unused name, the lowest one.
GenVertexArray(arrays) == CHOOSE n \in BufNames \ arrays : \A c \in BufNames \ arrays : n <= c

NilDeref == "panic: runtime error: invalid memory address or nil pointer dereference"

IsHeldPanic(e) == IsPanic(e) \/ e = NilDeref

\* The loop of Mesh.Init over m.Attribs in the order 'order' of its keys:
\* the calls arr.Init(attribMap[arr.Name]) makes.
InitBinds(m, order) ==
  [i \in 1..Len(order) |->
     [name |-> m.Attribs[order[i]].Name, loc |-> AttribSlot(m.Attribs[order[i]].Name),
      buf |-> m.Attribs[order[i]].Buf]]

\* m.Init(), the range over m.Attribs visiting the keys in the order
\* 'order': m.Array, the slots bound and the error. m.Elements.Init() reads
\* arr.Buf, which panics on a nil m.Elements.
MeshInit(m, order, arrays) ==
  [array |-> GenVertexArray(arrays),
   binds |-> InitBinds(m, order),
   err   |-> IF m.Elements.nil THEN NilDeref ELSE NoError]

\* The orders a range over the keys 'names' can take.
RECURSIVE Orders(_)
Orders(names) ==
  IF names = {} THEN {<<>>}
  ELSE UNION {{<<n>> \o q : q \in Orders(names \ {n})} : n \in names}

HeldCall(op, arrays, name, data) ==
  [NoMeshCall EXCEPT !.op = op, !.texcoords = arrays, !.pos = data, !.dims = name]

notHeld == <<arrVars, mmade, mgrVars, cleanVars, texsVars, texVars, matVars, updVars>>

\* A caller makes the Mesh.
DoNewHeldMesh ==
  /\ mesh.nil
  /\ mesh' = NewMesh("m")
  /\ merr' = NoError
  /\ mcall' = HeldCall("NewMesh", <<>>, "", NilData)
  /\ UNCHANGED <<glBuffers, initVars, notHeld>>

\* A caller makes arrays and adds them to the Mesh.
DoAddHeldArrays ==
  /\ ~mesh.nil /\ ~IsHeldPanic(merr)
  /\ \E args \in {a \in HeldArgs(MaxArgs) :
                    Cardinality(DOMAIN glBuffers) + ToMake(a) <= MaxHeldBufs} :
       \E made \in {MakeArrays(args, glBuffers)} :
         \E r \in {AddArrays(mesh, made.arrays)} :
           /\ mesh' = r.mesh
           /\ merr' = r.err
           /\ glBuffers' = made.bufs
           /\ mcall' = HeldCall("AddArrays", made.arrays, "", NilData)
           /\ UNCHANGED <<initVars, notHeld>>

\* A caller updates an array the Mesh holds: the Mesh holds a pointer to the
\* array, so that the array in m.Attribs is the one updated.
DoUpdateHeld ==
  /\ ~mesh.nil /\ ~IsHeldPanic(merr)
  /\ \E name \in DOMAIN mesh.Attribs :
       \E n \in {0} \cup {v * mesh.Attribs[name].Dims : v \in HeldCounts} :
         \E r \in {Update(mesh.Attribs[name], [kind |-> "float32", n |-> n])} :
           /\ mesh' = [mesh EXCEPT !.Attribs[name] = r.arr]
           /\ merr' = r.err
           /\ mcall' = HeldCall("Update", <<>>, name, [kind |-> "float32", n |-> n])
           /\ UNCHANGED <<glBuffers, initVars, notHeld>>

\* A caller gives the Mesh an ElementArray of three indices, as MakeMesh does.
DoSetElements ==
  /\ ~mesh.nil /\ ~IsHeldPanic(merr) /\ mesh.Elements.nil
  /\ Cardinality(DOMAIN glBuffers) < MaxHeldBufs
  /\ \E r \in {NewElementArray([kind |-> "uint8", n |-> 3, cap |-> 3], glBuffers)} :
       /\ mesh' = [mesh EXCEPT !.Elements = r.arr]
       /\ merr' = r.err
       /\ glBuffers' = r.bufs
       /\ mcall' = HeldCall("SetElements", <<>>, "", NilData)
       /\ UNCHANGED <<initVars, notHeld>>

\* m.Init()
DoMeshInit ==
  /\ ~mesh.nil /\ ~IsHeldPanic(merr) /\ marray = 0
  /\ \E order \in Orders(DOMAIN mesh.Attribs) :
       \E r \in {MeshInit(mesh, order, glArrays)} :
         /\ marray' = r.array
         /\ glArrays' = glArrays \cup {r.array}
         /\ binds' = r.binds
         /\ merr' = r.err
         /\ mcall' = HeldCall("Init", <<>>, "", NilData)
         /\ UNCHANGED <<mesh, glBuffers, notHeld>>

NextHeld ==
  \/ DoNewHeldMesh
  \/ DoAddHeldArrays
  \/ DoUpdateHeld
  \/ DoSetElements
  \/ DoMeshInit

SpecHeld == InitMesh /\ [][NextHeld]_vars

\* C22: after Mesh.Init, every slot bound for a name attribMap lists is that
\* name's slot, no slot is bound for any other name, and no two of the
\* bindings of the Mesh's arrays are to the same slot.
C22_InitBindsConventionalSlots ==
  mcall.op = "Init" =>
    /\ \A i \in 1..Len(binds) :
         /\ binds[i].name \in AttribMapKeys
         /\ binds[i].loc = AttribSlot(binds[i].name)
    /\ \A i, j \in 1..Len(binds) : i # j => binds[i].loc # binds[j].loc

\* The last position in nn[1..n] of an array named x (0: none).
LastNamed(nn, n, x) ==
  LET at == {i \in 1..n : nn[i].Name = x}
  IN  IF at = {} THEN 0 ELSE CHOOSE i \in at : \A j \in at : j <= i

\* C24: an AddArrays step registers the non-nil arrays that precede the
\* first one whose Attribs() differs from Vertices (all of them when none
\* differs), each under its name, the later of two arrays of one name
\* replacing the earlier and any array the Mesh held under the name; it
\* registers no array from the differing one on, keeps every other entry of
\* Attribs as it was, and fails exactly when an array differs.
C24_AddArraysNoRollback ==
  [][mcall'.op = "AddArrays" =>
       LET nn  == NonNil(mcall'.texcoords)
           v   == IF mesh.Vertices # -1 THEN mesh.Vertices
                  ELSE IF nn = <<>> THEN -1 ELSE Attribs(nn[1])
           bad == Differing(nn, v)
           n   == IF bad = {} THEN Len(nn) ELSE Least(bad) - 1
       IN  /\ (merr' # NoError) <=> (bad # {})
           /\ DOMAIN mesh'.Attribs = DOMAIN mesh.Attribs \cup {nn[i].Name : i \in 1..n}
           /\ \A x \in DOMAIN mesh'.Attribs :
                mesh'.Attribs[x] = IF LastNamed(nn, n, x) # 0 THEN nn[LastNamed(nn, n, x)]
                                   ELSE mesh.Attribs[x]
    ]_vars

\* C24 witness: with a "pos" array in buffer 1 registered, an AddArrays of a
\* "pos" array of as many vertices and a "tangent" array of another count
\* has failed; the new "pos" array has replaced the old one and no
\* "tangent" is registered.
C24_Witness ==
  /\ mcall.op = "AddArrays"
  /\ merr = InconsistentVertexCount
  /\ Len(mcall.texcoords) = 2
  /\ mcall.texcoords[1].Name = "pos" /\ mcall.texcoords[2].Name = "tangent"
  /\ mcall.texcoords[1].Buf = 2
  /\ DOMAIN mesh.Attribs = {"pos"}
  /\ mesh.Attribs["pos"] = mcall.texcoords[1]
  /\ 1 \in DOMAIN glBuffers

\* C25: every array registered in Attribs has Attribs() equal to Vertices.
C25_ChannelsMatchVertices ==
  ~mesh.nil => \A x \in DOMAIN mesh.Attribs : Attribs(mesh.Attribs[x]) = mesh.Vertices


\* ----------------------- SpecElem: one ElementArray and the Updates on it

\* The most indices an element slice holds, and the largest capacity it has.
MaxElems == 3

\* The slice types handed in as element data; "int32" stands for any type
\* the type switches do not list.
ElemKinds == {"uint8", "uint32", "int32"}

\* The slices NewElementArray is given: length n and capacity cap >= n.
ElemSlices ==
  {d \in [kind : ElemKinds, n : 0..MaxElems, cap : 0..MaxElems + 1] : d.n <= d.cap}

\* 'size' of the type switch of NewElementArray and ElementArray.Update
\* (left at its zero value by an unlisted type).
ElemBytes(kind) ==
  CASE kind = "uint8" -> 1
    [] kind = "uint32" -> 4
    [] OTHER -> 0

\* 'typ' of the type switch of ElementArray.Update (zero for an unlisted
\* type, which is no OpenGL type).
ElemType(kind) ==
  CASE kind = "uint8" -> "UNSIGNED_BYTE"
    [] kind = "uint32" -> "UNSIGNED_INT"
    [] OTHER -> "none"

\* The bytes of one index of an ElementArray of OpenGL type t.
TypeBytes(t) == IF t = "UNSIGNED_BYTE" THEN 1 ELSE IF t = "UNSIGNED_INT" THEN 4 ELSE 0

\* The panics of ElementArray.Update and NewElementArray.
IsElemPanic(e) ==
  e \in {"panic: unhandled data type", "panic: data is larger than array",
         "panic: index out of range",
         "panic: data type does not match array type"}

\* arr.Update(data) of a non-nil ElementArray: the array after, the panic (or
\* none) and the bytes gl.BufferSubData is asked to write. The length is
\* compared with arr.Cap, arr.Len is assigned, and the type switch then takes
\* the address of v[0], which panics on an empty slice of a listed type.
ElementArrayUpdate(e, data) ==
  LET l  == data.n
      e1 == [e EXCEPT !.Len = l]
  IN  IF l > e.Cap
      THEN [arr |-> e, err |-> "panic: data is larger than array", sent |-> 0]
      ELSE IF data.kind \in {"uint8", "uint32"} /\ l = 0
      THEN [arr |-> e1, err |-> "panic: index out of range", sent |-> 0]
      ELSE IF e.Type # ElemType(data.kind)
      THEN [arr |-> e1, err |-> "panic: data type does not match array type", sent |-> 0]
      ELSE [arr |-> e1, err |-> NoError, sent |-> l * ElemBytes(data.kind)]

\* A caller creates the element array from a slice.
DoNewElements ==
  /\ elem.nil
  /\ aerr = NoError
  /\ acall.op = "none"
  /\ \E data \in ElemSlices :
       \E r \in {NewElementArray(data, glBuffers)} :
         /\ elem' = r.arr
         /\ glBuffers' = r.bufs
         /\ aerr' = r.err
         /\ acall' = [op |-> "NewElements", dims |-> 0, data |-> data]
         /\ UNCHANGED <<arr, arr0, deleted, cleans, esent, meshVars, mgrVars,
                        texsVars, texVars, matVars, initVars>>

\* A caller updates the element array it holds.
DoElementUpdate ==
  /\ ~elem.nil
  /\ ~IsElemPanic(aerr)
  /\ \E data \in ElemSlices :
       \E r \in {ElementArrayUpdate(elem, data)} :
         /\ elem' = r.arr
         /\ aerr' = r.err
         /\ esent' = r.sent
         /\ acall' = [op |-> "UpdateElements", dims |-> 0, data |-> data]
         /\ UNCHANGED <<glBuffers, arr, arr0, deleted, cleans, meshVars, mgrVars,
                        texsVars, texVars, matVars, initVars>>

NextElem == DoNewElements \/ DoElementUpdate

SpecElem == InitArr /\ [][NextElem]_vars

\* The indices the data store of the element array has room for.
AllocatedElems == glBuffers[elem.Buf] \div TypeBytes(elem.Type)

\* C23: after NewElementArray, Len and Cap both equal the number of indices
\* storage was allocated for; an accepted Update asks for no more bytes than
\* that storage; an Update with more indices than it is refused; an Update
\* with an empty slice of the array's type is accepted and leaves Len = 0.
C23_ElementCapacityDiscipline ==
  /\ (acall.op = "NewElements" /\ aerr = NoError /\ ~elem.nil) =>
        /\ elem.Len = acall.data.n
        /\ elem.Cap = acall.data.n
        /\ AllocatedElems = acall.data.n
  /\ (acall.op = "UpdateElements" /\ aerr = NoError) =>
        esent <= glBuffers[elem.Buf]
  /\ (acall.op = "UpdateElements" /\ acall.data.n > AllocatedElems) =>
        IsElemPanic(aerr)
  /\ (acall.op = "UpdateElements" /\ acall.data.n = 0
        /\ ElemType(acall.data.kind) = elem.Type) =>
        (aerr = NoError /\ elem.Len = 0)


\* ------------ SpecStage: LoadShader for any stage and LoadProgram, no Clean

\* The stages a caller asks LoadShader to compile a file for.
Stages == {"VERTEX_SHADER", "FRAGMENT_SHADER"}

\* am.LoadShader(typ, name), any file for any stage.
DoLoadShaderAs ==
  \E m \in Managers, name \in ShaderFiles, typ \in Stages :
    LoadShaderStep(m, name, typ, AllHandles)

\* am.LoadProgram(vfile, ffile, gfile) with one more name to hand out.
DoLoadProgramOf ==
  \E m \in Managers, files \in ProgFiles : LoadProgramStep(m, files, AllHandles)

NextStage ==
  \/ DoLoadShaderAs /\ UNCHANGED idleVars
  \/ DoLoadProgramOf /\ UNCHANGED idleVars

SpecStage == InitMgr /\ [][NextStage]_vars

\* The stage set LoadProgram(files) on Manager m looks up, from the handles
\* its LoadShader calls find registered (0 for no geometry file).
StageSet(shaders, m, files) ==
  <<GetShader(shaders, m, files[1]).val, GetShader(shaders, m, files[2]).val,
    IF files[3] = "" THEN 0 ELSE GetShader(shaders, m, files[3]).val>>

\* Some file of 'files' is registered in the parent and in the child.
AtTwoLevels(shaders, files) ==
  \E i \in 1..3 : files[i] # "" /\ files[i] \in DOMAIN shaders[1] \cap DOMAIN shaders[2]

\* C26, LoadShader on a registered name: the call returns the handle
\* registered under the name, whatever stage it was compiled for and
\* whatever stage is asked for, and creates no shader object.
C26_CachedByName ==
  (gcall'.op = "LoadShader" /\ GetShader(Shaders, gcall'.m, gcall'.key).ok) =>
     /\ gret' = GetShader(Shaders, gcall'.m, gcall'.key).val
     /\ gerr' = NoError
     /\ glShaders' = glShaders
     /\ Shaders' = Shaders

\* C26, LoadShader on the parent of a name only the child has: a successful
\* call compiles a new shader object, distinct from the child's, registers it
\* in the parent and leaves the child's entry.
C26_SecondLevel ==
  (gcall'.op = "LoadShader" /\ gcall'.m = 1 /\ gerr' = NoError
     /\ gcall'.key \in DOMAIN Shaders[2] /\ gcall'.key \notin DOMAIN Shaders[1]) =>
     /\ gret' \notin DOMAIN glShaders
     /\ gret' \in DOMAIN glShaders'
     /\ gret' # Shaders[2][gcall'.key]
     /\ Shaders' = [Shaders EXCEPT ![1] = MapPut(@, gcall'.key, gret')]

\* C26, LoadProgram of files of which one is registered at both levels: when
\* the call has succeeded on the parent and on the child, the two Managers
\* look up different stage sets and hold two different linked programs.
C26_TwoPrograms ==
  \A files \in ProgFiles :
    (AtTwoLevels(Shaders, files)
       /\ files \in DOMAIN okProg[1] /\ files \in DOMAIN okProg[2]) =>
       /\ StageSet(Shaders, 1, files) # StageSet(Shaders, 2, files)
       /\ okProg[1][files] # okProg[2][files]
       /\ {okProg[1][files], okProg[2][files]} \subseteq glPrograms
       /\ Programs[1][StageSet(Shaders, 1, files)] = okProg[1][files]
       /\ Programs[2][StageSet(Shaders, 2, files)] = okProg[2][files]

\* C26: the shader cache is keyed by the file name alone (a LoadShader of a
\* registered name returns its handle without compiling, whatever the stage),
\* a name the child loaded first is compiled again by a LoadShader on the
\* parent and is then registered at both levels with distinct handles, and
\* LoadProgram of the same files on the parent and on the child then gives
\* different stage sets and two linked programs.
C26_ShaderCacheKeyedByName ==
  [][C26_CachedByName /\ C26_SecondLevel /\ C26_TwoPrograms']_vars

\* C26 witness: "a" is registered in the child for the vertex stage and in
\* the parent under another handle, LoadProgram("a", "a", "") has succeeded
\* on both with different programs, and the fragment stage of each stage set
\* is the handle compiled as a vertex shader.
C26_Witness ==
  /\ "a" \in DOMAIN Shaders[1] /\ "a" \in DOMAIN Shaders[2]
  /\ Shaders[1]["a"] # Shaders[2]["a"]
  /\ <<"a", "a", "">> \in DOMAIN okProg[1] /\ <<"a", "a", "">> \in DOMAIN okProg[2]
  /\ okProg[1][<<"a", "a", "">>] # okProg[2][<<"a", "a", "">>]
  /\ glShaders[Shaders[2]["a"]] = "VERTEX_SHADER"
  /\ <<Shaders[2]["a"], Shaders[2]["a"], 0>> \in DOMAIN Programs[2]

====
